---- MODULE Spec2Model ----
(***************************************************************************)
(* Model of the ASCII-ASTRIT per-frame transform pipeline                  *)
(* (AsciiEngine.render and its helpers) and of the callers that drive it.  *)
(*                                                                         *)
(* Numbers.  The engine computes in floating point.  The model computes    *)
(* in fixed point:                                                          *)
(*   - buffer values (graded channels, luma, edge magnitude, hashes) are   *)
(*     integers in units of 1/Unit, Unit = 255 * 8, so that every 8-bit    *)
(*     sample (k/255) and every eighth step of the error-diffusion ladder  *)
(*     is exact;                                                           *)
(*   - configuration numbers are integers in thousandths (Milli = 1.0),    *)
(*     the hue is in whole degrees;                                        *)
(*   - a product with a coefficient is rounded to the nearest unit.        *)
(* Strings are sequences of glyphs; a glyph is a TLA+ string.              *)
(***************************************************************************)
EXTENDS Integers, Sequences, FiniteSets, TLC

\* ------------------------------------------------------------------ bounds
MaxFrame == 2          \* frame indices supplied by the callers: 0..MaxFrame
MaxCalls == 3          \* calls recorded per scripted run
MaxUpdates == 2        \* updates made through the configuration setter
MaxShocks == 1         \* shocks triggered during a live playback

\* ------------------------------------------------------------- arithmetic
Unit == 255 * 8
Milli == 10 * 100

Min(a, b) == IF a < b THEN a ELSE b
Max(a, b) == IF a > b THEN a ELSE b
Abs(a) == IF a < 0 THEN -a ELSE a

\* Math.round of the quotient a / b (b > 0): floor(a/b + 1/2)
RoundDiv(a, b) == (2 * a + b) \div (2 * b)

\* clamp01 on a value in units of 1/Unit
clamp01(v) == Max(0, Min(Unit, v))
\* clamp01 on a configuration number in thousandths
clamp01m(v) == Max(0, Min(Milli, v))

\* v * (m / 1000), rounded
MulMilli(v, m) == RoundDiv(v * m, Milli)

\* floor(Math.sqrt(n)) for 0 <= n < 2^30: the high seven bits of the root,
\* then the low eight
ISqrt(n) ==
  LET hi == CHOOSE h \in 0..127 :
              (h * 256) * (h * 256) <= n /\ ((h + 1) * 256) * ((h + 1) * 256) > n
      lo == CHOOSE l \in 0..255 :
              (hi * 256 + l) * (hi * 256 + l) <= n
              /\ (hi * 256 + l + 1) * (hi * 256 + l + 1) > n
  IN IF n <= 0 THEN 0 ELSE hi * 256 + lo

\* a buffer with its elements computed once and held, as an array holds them
Stored(s) == s \o <<>>

\* the sum of s[lo..hi], by halving
RECURSIVE SumRange(_, _, _)
SumRange(s, lo, hi) ==
  IF lo > hi THEN 0
  ELSE IF lo = hi THEN s[lo]
  ELSE LET mid == (lo + hi) \div 2
       IN SumRange(s, lo, mid) + SumRange(s, mid + 1, hi)
SumSeq(s) == SumRange(s, 1, Len(s))

\* ------------------------------------------------- 32-bit words and hash3
\* An unsigned 32-bit word is a record [hi, lo] of two 16-bit halves.
W16 == 65536

\* the exclusive or of two 4-bit numbers, then of two 16-bit numbers
Xor4(p, q) ==
  ((p + q) % 2)
  + 2 * (((p \div 2) + (q \div 2)) % 2)
  + 4 * (((p \div 4) + (q \div 4)) % 2)
  + 8 * (((p \div 8) + (q \div 8)) % 2)
Xor16(a, b) ==
  Xor4(a % 16, b % 16)
  + 16 * Xor4((a \div 16) % 16, (b \div 16) % 16)
  + 256 * Xor4((a \div 256) % 16, (b \div 256) % 16)
  + 4096 * Xor4((a \div 4096) % 16, (b \div 4096) % 16)

Word(n) == [hi |-> (n \div W16) % W16, lo |-> n % W16]
XorW(a, b) == [hi |-> Xor16(a.hi, b.hi), lo |-> Xor16(a.lo, b.lo)]
\* h >>> 16 and h >>> 15
Shr16(a) == [hi |-> 0, lo |-> a.hi]
Shr15(a) == [hi |-> a.hi \div 32768, lo |-> (a.hi * 2 + a.lo \div 32768) % W16]

\* low 16 bits of the product of two 16-bit numbers
Low16Mul(x, y) == ((x % 256) * y + (((x \div 256) * y) % 256) * 256) % W16
\* Math.imul(a, b): product modulo 2^32
imul(a, b) ==
  LET p0 == (a.lo % 256) * b.lo
      p1 == (a.lo \div 256) * b.lo
      t  == p0 + (p1 % 256) * 256
      carry == t \div W16 + p1 \div 256
  IN [hi |-> (carry + Low16Mul(a.hi, b.lo) + Low16Mul(a.lo, b.hi)) % W16,
      lo |-> t % W16]

\* 0x21f0aaad and 0x735a2d97
HashMulA == [hi |-> 8688, lo |-> 43693]
HashMulB == [hi |-> 29530, lo |-> 11671]

\* hash3(x, y, z) for small non-negative integers: a value in [0, Unit)
HashFinish(h) == (XorW(h, Shr15(h)).hi * Unit) \div W16
HashRoundB(h) == HashFinish(imul(XorW(h, Shr15(h)), HashMulB))
HashRoundA(h) == HashRoundB(imul(XorW(h, Shr16(h)), HashMulA))
hash3(x, y, z) ==
  HashRoundA(XorW(XorW(Word(x * 12345), Word(y * 67890)), Word(z * 13579)))

\* ------------------------------------------------------------------- sine
\* Math.sin on an argument in thousandths of a radian, result in
\* thousandths: range reduction modulo 2*pi, then the Taylor polynomial
\* of degree 7 on [-pi/2, pi/2].
TwoPiMilli == 6283
PiMilli == 3142
HalfPiMilli == 1571

SinCore(x) ==
  LET x2 == (x * x) \div Milli
      x3 == (x2 * x) \div Milli
      x5 == (x3 * x2) \div Milli
      x7 == (x5 * x2) \div Milli
  IN x - x3 \div 6 + x5 \div 120 - x7 \div 5040

sin(a) ==
  LET r == a % TwoPiMilli
  IN IF r <= HalfPiMilli THEN SinCore(r)
     ELSE IF r <= PiMilli + HalfPiMilli THEN SinCore(PiMilli - r)
     ELSE SinCore(r - TwoPiMilli)

\* ------------------------------------------------------ ramps and tables
\* ASCII_RAMPS.standard, .wire, .seismic, .blocks, .binary and .katakana as
\* glyph sequences (the half-width kana are written k1..k63)
RampStandard == <<" ", ".", ":", "-", "=", "+", "*", "#", "%", "@">>
RampWire == <<" ", ".", "`", "'", "-", ",", "|", "/", "_", "\\">>
RampSeismic == <<" ", " ", "_", ".", "-", "~", "^", "~", "-", ".">>
RampBlocks == <<" ", "b1", "b2", "b3", "b4">>
RampBinary == <<" ", "0", "1">>
RampKatakana ==
  <<" ", "k1", "k2", "k3", "k4", "k5", "k6", "k7",
    "k8", "k9", "k10", "k11", "k12", "k13", "k14", "k15",
    "k16", "k17", "k18", "k19", "k20", "k21", "k22", "k23",
    "k24", "k25", "k26", "k27", "k28", "k29", "k30", "k31",
    "k32", "k33", "k34", "k35", "k36", "k37", "k38", "k39",
    "k40", "k41", "k42", "k43", "k44", "k45", "k46", "k47",
    "k48", "k49", "k50", "k51", "k52", "k53", "k54", "k55",
    "k56", "k57", "k58", "k59", "k60", "k61", "k62", "k63">>

BAYER_MATRIX_4x4 ==
  << <<0, 8, 2, 10>>, <<12, 4, 14, 6>>, <<3, 11, 1, 9>>, <<15, 7, 13, 5>> >>

\* getRamp: ASCII_RAMPS[mode.toLowerCase()] || ASCII_RAMPS.standard
getRamp(mode) ==
  CASE mode = "BINARY" -> RampBinary
    [] mode = "WIRE" -> RampWire
    [] mode = "SEISMIC" -> RampSeismic
    [] mode = "KATAKANA" -> RampKatakana
    [] OTHER -> RampStandard

\* SOBEL_MAX_MAGNITUDE = 4 * sqrt(2), in units of 1/Unit
SOBEL_MAX_MAGNITUDE == ISqrt(32 * Unit * Unit)

\* ----------------------------------------------------------------- colours
\* A colour string is the sequence of its characters.
Black   == <<"#", "0", "0", "0", "0", "0", "0">>
White   == <<"#", "f", "f", "f", "f", "f", "f">>
Cyan    == <<"#", "5", "5", "f", "f", "f", "f">>
Magenta == <<"#", "f", "f", "5", "5", "f", "f">>
Outline == <<"#", "2", "9", "a", "d", "f", "f">>
PaletteCGA == <<Black, Cyan, Magenta, White>>
PaletteMac == <<Black, White>>

HexDigits ==
  [c \in {"0", "1", "2", "3", "4", "5", "6", "7", "8", "9",
          "a", "b", "c", "d", "e", "f", "A", "B", "C", "D", "E", "F"} |->
     CASE c = "0" -> 0 [] c = "1" -> 1 [] c = "2" -> 2 [] c = "3" -> 3
       [] c = "4" -> 4 [] c = "5" -> 5 [] c = "6" -> 6 [] c = "7" -> 7
       [] c = "8" -> 8 [] c = "9" -> 9
       [] c \in {"a", "A"} -> 10 [] c \in {"b", "B"} -> 11
       [] c \in {"c", "C"} -> 12 [] c \in {"d", "D"} -> 13
       [] c \in {"e", "E"} -> 14 [] c \in {"f", "F"} -> 15]

\* hexToRgb: /^#?([a-f\d]{2})([a-f\d]{2})([a-f\d]{2})$/i, else black
hexToRgb(hex) ==
  LET d == IF Len(hex) = 7 /\ hex[1] = "#" THEN Tail(hex) ELSE hex
  IN IF Len(d) = 6 /\ \A i \in 1..6 : d[i] \in DOMAIN HexDigits
     THEN [r |-> 16 * HexDigits[d[1]] + HexDigits[d[2]],
           g |-> 16 * HexDigits[d[3]] + HexDigits[d[4]],
           b |-> 16 * HexDigits[d[5]] + HexDigits[d[6]]]
     ELSE [r |-> 0, g |-> 0, b |-> 0]

getPaletteRgb(palette) == Stored([i \in 1..Len(palette) |-> hexToRgb(palette[i])])

\* the string `rgb(r,g,b)`
RgbString(r, g, b) == <<"rgb", r, g, b>>

\* findNearestColor on channels in units of 1/Unit (r * 255 = r / 8):
\* squared distances are compared in eighths, first minimum wins
RECURSIVE NearestFrom(_, _, _, _, _, _, _, _)
NearestFrom(r, g, b, palette, paletteRgb, i, minDist, nearest) ==
  IF i > Len(paletteRgb) THEN nearest
  ELSE LET c == paletteRgb[i]
           dr == r - 8 * c.r
           dg == g - 8 * c.g
           db == b - 8 * c.b
           dist == dr * dr + dg * dg + db * db
       IN IF minDist < 0 \/ dist < minDist
          THEN NearestFrom(r, g, b, palette, paletteRgb, i + 1, dist, palette[i])
          ELSE NearestFrom(r, g, b, palette, paletteRgb, i + 1, minDist, nearest)

\* (the colour left as it is, as the full-colour mode writes it)
findNearestColorUnquantized(r, g, b, palette, paletteRgb) ==
  RgbString(RoundDiv(r, 8), RoundDiv(g, 8), RoundDiv(b, 8))
findNearestColor(r, g, b, palette, paletteRgb) ==
  NearestFrom(r, g, b, palette, paletteRgb, 1, -1,
              IF Len(palette) > 0 THEN palette[1] ELSE Black)

\* getGradientLut entry i (0..255)
GradientLutAt(palette, i) ==
  IF Len(palette) = 0 THEN White
  ELSE IF Len(palette) = 1 THEN palette[1]
  ELSE LET rgbPalette == getPaletteRgb(palette)
           n == Len(rgbPalette) - 1
           idx == (i * n) \div 255
           c1 == rgbPalette[idx + 1]
           c2 == rgbPalette[Min(idx + 1, n) + 1]
           \* factor = i * n / 255 - idx, kept as a numerator over 255
           f == i * n - idx * 255
       IN RgbString(RoundDiv(c1.r * 255 + (c2.r - c1.r) * f, 255),
                    RoundDiv(c1.g * 255 + (c2.g - c1.g) * f, 255),
                    RoundDiv(c1.b * 255 + (c2.b - c1.b) * f, 255))

\* ----------------------------------------------------------- configuration
\* DEFAULT_CUSTOM_RAMP (brightness in thousandths)
DEFAULT_CUSTOM_RAMP ==
  << [char |-> <<" ">>, brightness |-> 0,    semanticValue |-> <<"v">>],
     [char |-> <<".">>, brightness |-> 200,  semanticValue |-> <<"s">>],
     [char |-> <<":">>, brightness |-> 400,  semanticValue |-> <<"m">>],
     [char |-> <<"*">>, brightness |-> 600,  semanticValue |-> <<"e">>],
     [char |-> <<"#">>, brightness |-> 800,  semanticValue |-> <<"o">>],
     [char |-> <<"@">>, brightness |-> 1000, semanticValue |-> <<"i">>] >>

DEFAULT_SEMANTIC_WORD == <<"A", "S", "T", "R", "I", "T">>

\* PRESETS.DEFAULT, with resolution 1 (one cell per pixel) and the four-colour CGA
\* palette in place of the 16-colour one
DefaultConfig ==
  [seed |-> 42, mode |-> "PICO_ASCII", resolution |-> 1,
   brightness |-> 1000, contrast |-> 1000, hue |-> 0, saturation |-> 1000,
   lightness |-> 1000, gamma |-> 1000,
   dithering |-> 0, ditheringMode |-> "BAYER", colorizeDither |-> FALSE,
   outlineEnabled |-> FALSE, outlineSensitivity |-> 200, outlineColor |-> Outline,
   colorMode |-> "FULL", palette |-> PaletteCGA,
   distortion |-> "NONE", distortionStrength |-> 0,
   inverted |-> FALSE,
   semanticWord |-> DEFAULT_SEMANTIC_WORD, semanticRamp |-> FALSE,
   customRampEnabled |-> FALSE, customSemanticMapping |-> FALSE,
   customRampName |-> "DEFAULT_CUSTOM", customRampEntries |-> DEFAULT_CUSTOM_RAMP,
   temporalEnabled |-> FALSE, temporalBlend |-> 350, characterInertia |-> 350,
   edgeTemporalStability |-> 200,
   temporalDiagnosticsEnabled |-> FALSE,
   adaptiveInertiaEnabled |-> TRUE, adaptiveInertiaStrength |-> 550,
   temporalGhostClamp |-> 450,
   pixelate |-> 1]

\* Number.toFixed(4) of a number held in thousandths: the count of 1e-4
toFixed4(v) == v * 10
\* Number.toFixed(2) of a whole number of degrees: the count of 1e-2
toFixed2(v) == v * 100

\* A string is the sequence of its UTF-16 code units.  A glyph outside the
\* basic plane takes two, a high and a low surrogate, written here by their
\* values (D83D DE80 is U+1F680, D83D DE00 is U+1F600); the whole glyph is
\* written as the two joined.
HighSurrogates == {"D83D"}
LowSurrogates == {"DE80", "DE00"}

\* splitGraphemes: the grapheme units of a string.  Intl.Segmenter and
\* Array.from both keep the two halves of a surrogate pair together.
RECURSIVE splitGraphemes(_)
splitGraphemes(input) ==
  IF Len(input) = 0 THEN <<>>
  ELSE IF Len(input) >= 2 /\ input[1] \in HighSurrogates /\ input[2] \in LowSurrogates
       THEN <<input[1] \o input[2]>> \o splitGraphemes(SubSeq(input, 3, Len(input)))
       ELSE <<input[1]>> \o splitGraphemes(Tail(input))

\* firstGrapheme: graphemes[0] || ' '
firstGrapheme(input) ==
  LET graphemes == splitGraphemes(input)
  IN IF Len(graphemes) = 0 THEN " " ELSE graphemes[1]

\* String.trim().toLowerCase() on a semantic tag: letters of the model are
\* lower-cased through this table, blanks at both ends are dropped
LowerOf(c) ==
  CASE c = "A" -> "a" [] c = "S" -> "s" [] c = "T" -> "t" [] c = "R" -> "r"
    [] c = "I" -> "i" [] c = "V" -> "v" [] c = "M" -> "m" [] c = "E" -> "e"
    [] c = "O" -> "o" [] OTHER -> c

RECURSIVE TrimLeft(_)
TrimLeft(w) == IF w # <<>> /\ Head(w) = " " THEN TrimLeft(Tail(w)) ELSE w
RECURSIVE TrimRight(_)
TrimRight(w) ==
  IF w # <<>> /\ w[Len(w)] = " " THEN TrimRight(SubSeq(w, 1, Len(w) - 1)) ELSE w
Trim(w) == TrimRight(TrimLeft(w))
toLowerCase(w) == [i \in 1..Len(w) |-> LowerOf(w[i])]

\* the fields getTemporalSignature joins, in its order
TemporalSignatureFields(config) ==
  LET rampSignature ==
        IF config.customRampEnabled
        THEN [i \in 1..Len(config.customRampEntries) |->
                LET entry == config.customRampEntries[i]
                IN << firstGrapheme(IF Len(entry.char) = 0 THEN <<" ">> ELSE entry.char),
                      toFixed4(clamp01m(entry.brightness)),
                      toLowerCase(Trim(entry.semanticValue)) >>]
        ELSE <<>>
  IN << config.seed, config.mode, config.resolution,
        IF config.inverted THEN 1 ELSE 0,
        toFixed4(config.brightness), toFixed4(config.contrast),
        toFixed2(config.hue), toFixed4(config.saturation),
        toFixed4(config.lightness), toFixed4(config.gamma),
        toFixed4(config.dithering), config.ditheringMode,
        IF config.colorizeDither THEN 1 ELSE 0,
        IF config.outlineEnabled THEN 1 ELSE 0,
        toFixed4(config.outlineSensitivity), config.colorMode,
        config.palette, config.distortion,
        toFixed4(config.distortionStrength), config.semanticWord,
        IF config.semanticRamp THEN 1 ELSE 0,
        IF config.customRampEnabled THEN 1 ELSE 0,
        IF config.customSemanticMapping THEN 1 ELSE 0,
        config.customRampName, rampSignature >>

\* getTemporalSignature: the joined list of fields. (Its one-entry cache is keyed
\* by the identity of the configuration object; the callers replace the object
\* on every change, so the cache returns what a fresh computation returns.)
getTemporalSignatureWithoutInversion(config) ==
  [TemporalSignatureFields(config) EXCEPT ![4] = 0]
getTemporalSignature(config) == TemporalSignatureFields(config)

\* appliedTemporalSignature = '' (no signature applied)
NoSignature == <<>>

\* ------------------------------------------------------------ frame sample
\* The downsampling of the source and the brush overlay to cols x rows
\* cells (offCtx.drawImage + getImageData): 8-bit samples per cell.
\*   "step":     dark left half, bright right half
\*   "gradient": red rises with x, green with y, blue constant
\*   "split":    bright top rows, dark bottom rows
\*   "gray":     every pixel (128, 128, 128)
\*   "black":    every pixel (0, 0, 0)
\* The brush layer paints the top-left cell white.
NoSource == "none"
Sources == {"step", "gradient", "split", "gray", "black"}

SourcePixel(source, x, y, cols, rows) ==
  CASE source = "step" ->
         IF 2 * x >= cols THEN [r |-> 255, g |-> 255, b |-> 255]
                          ELSE [r |-> 0, g |-> 0, b |-> 0]
    [] source = "gradient" ->
         [r |-> (x * 255) \div Max(1, cols - 1),
          g |-> (y * 255) \div Max(1, rows - 1),
          b |-> 102]
    [] source = "split" ->
         IF 2 * y < rows THEN [r |-> 204, g |-> 204, b |-> 204]
                         ELSE [r |-> 51, g |-> 51, b |-> 51]
    [] source = "gray" -> [r |-> 128, g |-> 128, b |-> 128]
    [] OTHER -> [r |-> 0, g |-> 0, b |-> 0]

\* rawData, one RGB sample per cell in row-major order (1-based index)
Sample(source, brush, cols, rows) ==
  Stored([i \in 1..(cols * rows) |->
            IF brush /\ i = 1 THEN [r |-> 255, g |-> 255, b |-> 255]
            ELSE SourcePixel(source, (i - 1) % cols, (i - 1) \div cols, cols, rows)])

\* ------------------------------------------------------------------ grading
\* 2 * cos(hue) and 2 * sqrt(1/3) * sin(hue) for the hues of the model
\* (multiples of 60 degrees, where both are whole numbers)
Cos2(hue) ==
  CASE hue = 0 -> 2 [] hue \in {60, -60} -> 1 [] hue \in {120, -120} -> -1
    [] OTHER -> -2
SSin2(hue) ==
  CASE hue \in {60, 120} -> 1 [] hue \in {-60, -120} -> -1 [] OTHER -> 0

\* v * v for v >= 0 in 1/Unit, through the whole and the fractional part of v
SquareU(v) == v * (v \div Unit) + RoundDiv(v * (v % Unit), Unit)

\* v to the tenth power for v >= 0 in 1/Unit.  From 1 upwards the power is at
\* least v and is beyond the reach of the integers of the model: v stands for it.
PowU10(v) ==
  IF v >= Unit THEN v
  ELSE LET v2 == SquareU(v)
           v4 == SquareU(v2)
           v8 == SquareU(v4)
       IN RoundDiv(v8 * v2, Unit)

\* Math.pow(Math.max(0, v), 1 / Math.max(0.0001, gamma)) for the gammas of
\* the model: 1.0, 0.1 (a tenth power), 0.5 (a square), 2.0 (a square root)
\* and 4.0 (a fourth root)
PowInvGamma(v, gamma) ==
  LET x == Max(0, v)
  IN CASE gamma = 100 -> PowU10(x)
       [] gamma = 500 -> SquareU(x)
       [] gamma = 2000 -> ISqrt(x * Unit)
       [] gamma = 4000 -> ISqrt(ISqrt(x * Unit) * Unit)
       [] OTHER -> x

\* clamp01 without its upper bound
clamp01FromBelow(v) == Max(0, v)

\* the write of one graded channel: target[idx] = this.clamp01(v)
GradedChannel(v) == clamp01(v)

\* applyGrading for one pixel: 8-bit sample to graded channels in 1/Unit
GradePixel(px, config) ==
  LET half == Unit \div 2
      lift == MulMilli(Unit, config.brightness - Milli)
      r1 == MulMilli(8 * px.r - half, config.contrast) + half + lift
      g1 == MulMilli(8 * px.g - half, config.contrast) + half + lift
      b1 == MulMilli(8 * px.b - half, config.contrast) + half + lift
      \* mat[0], mat[1], mat[2] in sixths
      ma == 2 * Cos2(config.hue) + 2
      mb == 2 - Cos2(config.hue) - 3 * SSin2(config.hue)
      mc == 2 - Cos2(config.hue) + 3 * SSin2(config.hue)
      r2 == RoundDiv(r1 * ma + g1 * mb + b1 * mc, 6)
      g2 == RoundDiv(r1 * mc + g1 * ma + b1 * mb, 6)
      b2 == RoundDiv(r1 * mb + g1 * mc + b1 * ma, 6)
      lum == RoundDiv(299 * r2 + 587 * g2 + 114 * b2, 1000)
      r3 == lum + MulMilli(r2 - lum, config.saturation)
      g3 == lum + MulMilli(g2 - lum, config.saturation)
      b3 == lum + MulMilli(b2 - lum, config.saturation)
      r4 == MulMilli(r3, config.lightness)
      g4 == MulMilli(g3, config.lightness)
      b4 == MulMilli(b3, config.lightness)
  IN [r |-> GradedChannel(PowInvGamma(r4, config.gamma)),
      g |-> GradedChannel(PowInvGamma(g4, config.gamma)),
      b |-> GradedChannel(PowInvGamma(b4, config.gamma))]

applyGrading(data, config) ==
  Stored([i \in 1..Len(data) |-> GradePixel(data[i], config)])

\* lumaBuffer[i] = 0.299 r + 0.587 g + 0.114 b
LumaOf(c) == RoundDiv(299 * c.r + 587 * c.g + 114 * c.b, 1000)

\* ---------------------------------------------------------- error diffusion
\* add v * (w / 16) to cell n of a luma buffer, when the guard holds
AddAt(buf, n, guard, err, w) ==
  IF guard THEN [buf EXCEPT ![n] = @ + RoundDiv(err * w, 16)] ELSE buf

RECURSIVE FloydLumaFrom(_, _, _, _, _)
FloydLumaFrom(buffer, cols, rows, strength, i) ==
  IF i > cols * rows THEN buffer
  ELSE LET x == (i - 1) % cols
           y == (i - 1) \div cols
           steps == 8
           oldVal == buffer[i]
           \* Math.round(oldVal * steps) / steps
           newVal == RoundDiv(oldVal * steps, Unit) * (Unit \div steps)
           err == MulMilli(oldVal - newVal, strength)
           b0 == [buffer EXCEPT ![i] = newVal]
           b1 == AddAt(b0, i + 1, x + 1 < cols, err, 7)
           b2 == AddAt(b1, i + cols - 1, y + 1 < rows /\ x > 0, err, 3)
           b3 == AddAt(b2, i + cols, y + 1 < rows, err, 5)
           b4 == AddAt(b3, i + cols + 1, y + 1 < rows /\ x + 1 < cols, err, 1)
       IN FloydLumaFrom(b4, cols, rows, strength, i + 1)

applyFloydSteinbergLuma(buffer, cols, rows, strength) ==
  FloydLumaFrom(buffer, cols, rows, strength, 1)

AddRgbAt(buf, n, guard, er, eg, eb, w) ==
  IF guard
  THEN [buf EXCEPT ![n] = [r |-> @.r + RoundDiv(er * w, 16),
                            g |-> @.g + RoundDiv(eg * w, 16),
                            b |-> @.b + RoundDiv(eb * w, 16)]]
  ELSE buf

RECURSIVE FloydRgbFrom(_, _, _, _, _, _, _, _)
FloydRgbFrom(buffer, cols, rows, strength, quantizeBaseBuffer, palette, paletteRgb, i) ==
  IF i > cols * rows THEN buffer
  ELSE LET x == (i - 1) % cols
           y == (i - 1) \div cols
           c == buffer[i]
           hex == findNearestColor(c.r, c.g, c.b, palette, paletteRgb)
           rgb == hexToRgb(hex)
           er == MulMilli(c.r - 8 * rgb.r, strength)
           eg == MulMilli(c.g - 8 * rgb.g, strength)
           eb == MulMilli(c.b - 8 * rgb.b, strength)
           b0 == IF quantizeBaseBuffer
                 THEN [buffer EXCEPT ![i] = [r |-> 8 * rgb.r, g |-> 8 * rgb.g, b |-> 8 * rgb.b]]
                 ELSE buffer
           b1 == AddRgbAt(b0, i + 1, x + 1 < cols, er, eg, eb, 7)
           b2 == AddRgbAt(b1, i + cols - 1, y + 1 < rows /\ x > 0, er, eg, eb, 3)
           b3 == AddRgbAt(b2, i + cols, y + 1 < rows, er, eg, eb, 5)
           b4 == AddRgbAt(b3, i + cols + 1, y + 1 < rows /\ x + 1 < cols, er, eg, eb, 1)
       IN FloydRgbFrom(b4, cols, rows, strength, quantizeBaseBuffer, palette, paletteRgb, i + 1)

applyFloydSteinbergRGB(buffer, cols, rows, strength, quantizeBaseBuffer, palette, paletteRgb) ==
  FloydRgbFrom(buffer, cols, rows, strength, quantizeBaseBuffer, palette, paletteRgb, 1)

\* ------------------------------------------------------------ edge detector
\* the cell (x, y) of a row-major buffer (0-based coordinates)
At(buf, cols, x, y) == buf[y * cols + x + 1]

SobelGx(buf, cols, x, y) ==
  -At(buf, cols, x - 1, y - 1) + At(buf, cols, x + 1, y - 1)
  - 2 * At(buf, cols, x - 1, y) + 2 * At(buf, cols, x + 1, y)
  - At(buf, cols, x - 1, y + 1) + At(buf, cols, x + 1, y + 1)

SobelGy(buf, cols, x, y) ==
  -At(buf, cols, x - 1, y - 1) - 2 * At(buf, cols, x, y - 1) - At(buf, cols, x + 1, y - 1)
  + At(buf, cols, x - 1, y + 1) + 2 * At(buf, cols, x, y + 1) + At(buf, cols, x + 1, y + 1)

\* The glyph chosen from ((atan2(gy, gx) * 180 / PI + 180) % 180): the
\* bucket limits 22.5 and 67.5 degrees are tan = 0.41421 and 2.41421.
EdgeGlyph(gx, gy) ==
  LET ax == Abs(gx)
      ay == Abs(gy)
      sameSign == (gx >= 0) = (gy >= 0)
  IN IF 100000 * ay < 41421 * ax \/ (gx = 0 /\ gy = 0) THEN "|"
     ELSE IF 100000 * ay >= 241421 * ax THEN "-"
     ELSE IF sameSign THEN "/" ELSE "\\"

\* computeEdgeData: magnitude and the directional glyph of the angle
computeEdgeData(buf, cols, rows) ==
  LET interior(i) == LET x == (i - 1) % cols
                         y == (i - 1) \div cols
                     IN x >= 1 /\ x < cols - 1 /\ y >= 1 /\ y < rows - 1
      gxAt(i) == SobelGx(buf, cols, (i - 1) % cols, (i - 1) \div cols)
      gyAt(i) == SobelGy(buf, cols, (i - 1) % cols, (i - 1) \div cols)
  IN [magnitude |-> Stored([i \in 1..(cols * rows) |->
                              IF interior(i)
                              THEN ISqrt(gxAt(i) * gxAt(i) + gyAt(i) * gyAt(i)) ELSE 0]),
      angle |-> Stored([i \in 1..(cols * rows) |->
                          IF interior(i) THEN EdgeGlyph(gxAt(i), gyAt(i)) ELSE "|"])]

\* applyTemporalBlend: current * (1 - amount) + previous * amount
applyTemporalBlend(current, previous, blend) ==
  LET amount == clamp01m(blend)
  IN IF amount <= 0 \/ Len(current) # Len(previous) THEN current
     ELSE Stored([i \in 1..Len(current) |->
                    RoundDiv(current[i] * (Milli - amount) + previous[i] * amount, Milli)])

\* computeTemporalMotionScore, all values in 1/Unit
computeTemporalMotionScore(lumaDelta, edgeDeltaNorm) ==
  LET lumaNorm == clamp01(RoundDiv(lumaDelta * 100, 35))
  IN clamp01(RoundDiv(lumaNorm * 65 + clamp01(edgeDeltaNorm) * 35, 100))

\* ----------------------------------------------------------- glyph selector
\* stable insertion of e into a list sorted by brightness
RECURSIVE InsertSorted(_, _)
InsertSorted(sorted, e) ==
  IF sorted = <<>> THEN <<e>>
  ELSE IF sorted[Len(sorted)].brightness <= e.brightness THEN Append(sorted, e)
  ELSE Append(InsertSorted(SubSeq(sorted, 1, Len(sorted) - 1), e), sorted[Len(sorted)])

RECURSIVE SortByBrightness(_)
SortByBrightness(entries) ==
  IF entries = <<>> THEN <<>>
  ELSE InsertSorted(SortByBrightness(SubSeq(entries, 1, Len(entries) - 1)),
                    entries[Len(entries)])

\* getCustomRampEntries: filter, normalise, sort by brightness (in 1/Unit)
getCustomRampEntries(config) ==
  IF ~config.customRampEnabled THEN <<>>
  ELSE LET kept == SelectSeq(config.customRampEntries, LAMBDA e : Len(e.char) > 0)
       IN SortByBrightness(
            [i \in 1..Len(kept) |->
               [char |-> firstGrapheme(kept[i].char),
                brightness |-> MulMilli(Unit, clamp01m(kept[i].brightness)),
                semanticValue |-> kept[i].semanticValue]])

RECURSIVE NearestEntryFrom(_, _, _, _, _)
NearestEntryFrom(entries, b, i, minDist, best) ==
  IF i > Len(entries) THEN best
  ELSE LET dist == Abs(entries[i].brightness - b)
       IN IF dist < minDist
          THEN NearestEntryFrom(entries, b, i + 1, dist, entries[i])
          ELSE NearestEntryFrom(entries, b, i + 1, minDist, best)

\* (the nearest entry with the inversion flag ignored)
getCharFromCustomRampUninverted(brightness, entries, inverted) ==
  IF Len(entries) = 0 THEN " "
  ELSE NearestEntryFrom(entries, clamp01(brightness), 2,
                        Abs(entries[1].brightness - clamp01(brightness)), entries[1]).char
getCharFromCustomRamp(brightness, entries, inverted) ==
  IF Len(entries) = 0 THEN " "
  ELSE LET target == IF inverted THEN Unit - brightness ELSE brightness
           b == clamp01(target)
       IN NearestEntryFrom(entries, b, 2, Abs(entries[1].brightness - b), entries[1]).char

IsSeparator(c) == c \in {",", " "}

\* String.split(/[,\s]+/) followed by filter(Boolean)
RECURSIVE SplitTokens(_, _, _)
SplitTokens(w, cur, acc) ==
  IF w = <<>> THEN (IF cur = <<>> THEN acc ELSE Append(acc, cur))
  ELSE IF IsSeparator(Head(w))
       THEN SplitTokens(Tail(w), <<>>, IF cur = <<>> THEN acc ELSE Append(acc, cur))
       ELSE SplitTokens(Tail(w), Append(cur, Head(w)), acc)

parseSemanticTokens(input) ==
  LET normalized == Trim(input)
      tokens == SplitTokens(toLowerCase(normalized), <<>>, <<>>)
  IN IF normalized = <<>> THEN <<>>
     ELSE IF (\E i \in 1..Len(normalized) : IsSeparator(normalized[i])) /\ Len(tokens) > 0
     THEN tokens
     ELSE [i \in 1..Len(normalized) |-> <<LowerOf(normalized[i])>>]

\* Math.round in place of the Math.floor of the ramp index
RampIndexRounded(b, n) == Max(0, Min(RoundDiv(b * (n - 1), Unit), n - 1))

\* floor(b * (n - 1)) clamped to 0..n-1, for b in 1/Unit
RampIndex(b, n) == Max(0, Min((b * (n - 1)) \div Unit, n - 1))

\* getSemanticMappedChar: the glyph, or "" for null
NoChar == ""
getSemanticMappedChar(brightness, x, y, entries, tokens, semanticRamp, inverted) ==
  IF Len(entries) = 0 \/ Len(tokens) = 0 THEN NoChar
  ELSE LET tokenIndex ==
             IF semanticRamp
             THEN (clamp01(IF inverted THEN Unit - brightness ELSE brightness)
                     * (Len(tokens) - 1)) \div Unit
             ELSE (x + y) % Len(tokens)
           token == tokens[Max(0, Min(tokenIndex, Len(tokens) - 1)) + 1]
           matches == {i \in 1..Len(entries) :
                         toLowerCase(Trim(entries[i].semanticValue)) = token}
       IN IF matches = {} THEN NoChar
          ELSE entries[CHOOSE i \in matches : \A j \in matches : i <= j].char

\* Math.pow(b, 0.8) in 1/Unit: 0.8 = 1/2 + 1/4 + 1/32 + 1/64 + 1/512 + 1/1024
SqrtU(v) == ISqrt(v * Unit)
MulU(a, b) == RoundDiv(a * b, Unit)
Pow08(b) ==
  LET s1 == SqrtU(Max(0, b))
      s2 == SqrtU(s1)
      s5 == SqrtU(SqrtU(SqrtU(s2)))
      s6 == SqrtU(s5)
      s9 == SqrtU(SqrtU(SqrtU(s6)))
      s10 == SqrtU(s9)
  IN MulU(MulU(MulU(s1, s2), MulU(s5, s6)), MulU(s9, s10))

\* the luminance floor of matrix mode: brightness < 0.1
BelowMatrixFloorNever(brightness) == FALSE
BelowMatrixFloor(brightness) == 10 * brightness < Unit

getChar(brightness, config, x, y, frameIndex, customRampEntries, semanticTokens) ==
  LET mode == config.mode
      hasCustomRamp == Len(customRampEntries) > 0
  IN
  IF mode = "SEMANTIC" THEN
    IF hasCustomRamp THEN
      LET semanticChar ==
            IF config.customSemanticMapping
            THEN getSemanticMappedChar(brightness, x, y, customRampEntries,
                                       semanticTokens, config.semanticRamp, config.inverted)
            ELSE NoChar
      IN IF semanticChar # NoChar THEN semanticChar
         ELSE getCharFromCustomRamp(brightness, customRampEntries, config.inverted)
    ELSE
      LET word == IF Len(config.semanticWord) = 0 THEN DEFAULT_SEMANTIC_WORD
                  ELSE config.semanticWord
      IN IF config.semanticRamp
         THEN LET b == IF config.inverted THEN Unit - brightness ELSE brightness
              IN word[RampIndex(b, Len(word)) + 1]
         ELSE IF (IF config.inverted THEN 10 * brightness > 6 * Unit
                                     ELSE 10 * brightness < 4 * Unit)
              THEN " "
              ELSE word[((x + y) % Len(word)) + 1]
  ELSE IF mode = "MATRIX" THEN
    IF BelowMatrixFloor(brightness) THEN " "
    ELSE LET ramp == RampKatakana
             pxHash == hash3(x, y, config.seed)
             \* columnSpeed and the phase in thousandths
             columnSpeed == RoundDiv(hash3(x, 0, config.seed) * 500, Unit) + 200
             signal == sin(y * 100 - RoundDiv(frameIndex * 80 * columnSpeed, Milli)
                           + config.seed * Milli)
             limit == Unit \div 10 + RoundDiv(brightness * 6, 10)
                      + RoundDiv(signal * Unit, 10 * Milli)
         IN IF pxHash > limit THEN " "
            ELSE ramp[(((pxHash * Len(ramp)) \div Unit) % Len(ramp)) + 1]
  ELSE IF mode = "ANSI_BLOCK" THEN
    IF hasCustomRamp
    THEN getCharFromCustomRamp(brightness, customRampEntries, config.inverted)
    ELSE LET b0 == IF config.inverted THEN brightness ELSE Pow08(brightness)
             b == clamp01(RoundDiv((b0 - Unit \div 2) * 115, 100) + Unit \div 2)
         IN RampBlocks[RampIndex(b, Len(RampBlocks)) + 1]
  ELSE IF hasCustomRamp
    THEN getCharFromCustomRamp(brightness, customRampEntries, config.inverted)
  ELSE LET ramp == getRamp(mode)
           b == IF config.inverted THEN Unit - brightness ELSE brightness
       IN ramp[RampIndex(b, Len(ramp)) + 1]

\* ------------------------------------------------------------------ engine
\* The fields of one AsciiEngine instance after construction.  The colour,
\* palette, gradient and ramp caches are left out: each maps a key to a
\* value computed from the key alone.
NewEngine ==
  [canvas |-> [width |-> 0, height |-> 0],
   gradedBuffer |-> <<>>, lumaBuffer |-> <<>>,
   edgeMagnitude |-> <<>>, edgeAngle |-> <<>>,
   prevLumaBuffer |-> <<>>, prevEdgeMagnitude |-> <<>>, prevCharGrid |-> <<>>,
   temporalLumaDeltaBuffer |-> <<>>, temporalLockBuffer |-> <<>>,
   temporalMotionBuffer |-> <<>>, temporalEdgeDeltaBuffer |-> <<>>,
   temporalHistoryValid |-> FALSE,
   lastTemporalFrameIndex |-> -1,
   lastTemporalSampleLen |-> 0,
   appliedTemporalSignature |-> NoSignature]

Zeros(n) == Stored([i \in 1..n |-> 0])
Blanks(n) == Stored([i \in 1..n |-> " "])

\* ensureFloatBuffer: the same buffer when the length matches, else a new
\* zero-filled one
ensureFloatBuffer(current, length) ==
  IF Len(current) = length THEN current ELSE Zeros(length)

\* resetTemporalState
resetTemporalState(e, sampleLen) ==
  [e EXCEPT !.prevLumaBuffer = Zeros(sampleLen),
            !.prevEdgeMagnitude = Zeros(sampleLen),
            !.prevCharGrid = Blanks(sampleLen),
            !.temporalLumaDeltaBuffer = Zeros(sampleLen),
            !.temporalLockBuffer = Zeros(sampleLen),
            !.temporalMotionBuffer = Zeros(sampleLen),
            !.temporalEdgeDeltaBuffer = Zeros(sampleLen),
            !.temporalHistoryValid = FALSE,
            !.lastTemporalFrameIndex = -1,
            !.lastTemporalSampleLen = sampleLen]

\* Math.log2(k) in thousandths, k = 1..16
Log2Milli ==
  <<0, 1000, 1585, 2000, 2322, 2585, 2807, 3000,
    3170, 3322, 3459, 3585, 3700, 3807, 3907, 4000>>

HexChars == <<"0", "1", "2", "3", "4", "5", "6", "7",
              "8", "9", "a", "b", "c", "d", "e", "f">>
\* rgbToHex on channels already scaled to 0..255
rgbToHex(r, g, b) ==
  LET rr == Max(0, Min(255, r))
      gg == Max(0, Min(255, g))
      bb == Max(0, Min(255, b))
  IN <<"#", HexChars[(rr \div 16) + 1], HexChars[(rr % 16) + 1],
            HexChars[(gg \div 16) + 1], HexChars[(gg % 16) + 1],
            HexChars[(bb \div 16) + 1], HexChars[(bb % 16) + 1]>>

MAX_DIM == 8192

\* what render returns for a frame with neither source nor overlay
NoTemporal ==
  [defined |-> FALSE, lockRatio |-> 0, meanLumaDelta |-> 0,
   meanEdgeDelta |-> 0, meanMotion |-> 0]
EmptyMetrics ==
  [averageLuminance |-> 0, density |-> 0, entropy |-> 0,
   dominantColor |-> Black, temporal |-> NoTemporal]

\* the fill of a cell on which nothing is drawn
NoFill == <<>>
EmptyResult ==
  [rendered |-> FALSE, frameIndex |-> 0, cols |-> 0, rows |-> 0,
   charGrid |-> <<>>, naive |-> <<>>, luminance |-> <<>>,
   fills |-> <<>>, isEdge |-> <<>>, locked |-> <<>>,
   lumaDelta |-> <<>>, edgeDeltaNorm |-> <<>>, motionScore |-> <<>>,
   charCounts |-> <<>>, metrics |-> EmptyMetrics,
   hasTemporalHistory |-> FALSE, requiresTemporalReset |-> FALSE,
   temporalLockCount |-> 0, temporalDecisionCount |-> 0,
   diagnostics |-> "none"]

\* shockIntensity in thousandths; shockProgress is -1 when absent
ShockIntensity(shockProgress) ==
  LET shockDecay == IF shockProgress >= 0 THEN Max(0, Milli - shockProgress) ELSE 0
  IN IF shockDecay > 0 THEN Max(1, RoundDiv(shockDecay * shockDecay, Milli)) ELSE 0

\* the lookup coordinate of cell (x, y) in thousandths of a cell:
\* the shock row offset, then the distortion of the configuration
LookupX(config, x, y, cols, rows, frameIndex, shockIntensity) ==
  LET strength == config.distortionStrength
      rowOffset ==
        IF shockIntensity > 0
           /\ hash3(0, y, config.seed) * 10 * Milli < shockIntensity * 4 * Unit
        THEN RoundDiv((hash3(1, y, config.seed) - Unit \div 2) * shockIntensity * 80, Unit)
        ELSE 0
      base == x * Milli + rowOffset
      cx == cols * 500
      cy == rows * 500
      dx == x * Milli - cx
      dy == y * Milli - cy
      radius == ISqrt(dx * dx + dy * dy)
      maxRadius == Max(Milli, ISqrt(cx * cx + cy * cy))
      twist == RoundDiv((Milli - Min(Milli, (radius * Milli) \div maxRadius)) * strength * 8,
                        100 * Milli)
  IN CASE config.distortion = "NOISE" ->
            base + RoundDiv((hash3(x, y, config.seed) - Unit \div 2) * strength * 20, Unit)
       [] config.distortion = "WAVE" ->
            base + RoundDiv(sin(y * 100 + frameIndex * 150) * strength * 10, Milli)
       [] config.distortion = "TWIST" ->
            cx + RoundDiv(dx * sin(twist + HalfPiMilli) - dy * sin(twist), Milli)
       [] config.distortion = "VHS" ->
            base + RoundDiv(sin(y * 180 + frameIndex * 40 + config.seed * Milli) * strength * 6,
                            Milli)
                 + (IF hash3(x \div 3, y, config.seed + frameIndex) * 50 * Milli < strength * Unit
                    THEN RoundDiv((hash3(x, y, config.seed + 17) - Unit \div 2) * strength * 50, Unit)
                    ELSE 0)
       [] OTHER -> base

LookupY(config, x, y, cols, rows) ==
  LET strength == config.distortionStrength
      cx == cols * 500
      cy == rows * 500
      dx == x * Milli - cx
      dy == y * Milli - cy
      radius == ISqrt(dx * dx + dy * dy)
      maxRadius == Max(Milli, ISqrt(cx * cx + cy * cy))
      twist == RoundDiv((Milli - Min(Milli, (radius * Milli) \div maxRadius)) * strength * 8,
                        100 * Milli)
  IN CASE config.distortion = "NOISE" ->
            y * Milli + RoundDiv((hash3(x, y, config.seed + 1) - Unit \div 2) * strength * 20, Unit)
       [] config.distortion = "TWIST" ->
            cy + RoundDiv(dx * sin(twist) + dy * sin(twist + HalfPiMilli), Milli)
       [] OTHER -> y * Milli

\* the ordered-dither offset of cell (x, y) for an amount in thousandths
BayerOffset(x, y, dithering) ==
  RoundDiv((BAYER_MATRIX_4x4[(y % 4) + 1][(x % 4) + 1] - 8) * dithering * Unit, 16 * Milli)

\* render: the engine after the call and what the call produced.
\* width and height are whole numbers of pixels.
\* ---- the conditions of render that the checks below single out
\* temporalFrameDiscontinuity: the frame index is not the one after the last
\* index this engine stored
TemporalFrameDiscontinuityRewindOnly(lastIndex, frameIndex) ==
  lastIndex >= 0 /\ frameIndex < lastIndex + 1
TemporalFrameDiscontinuityNever(lastIndex, frameIndex) == FALSE
TemporalFrameDiscontinuity(lastIndex, frameIndex) ==
  lastIndex >= 0 /\ frameIndex # lastIndex + 1

\* baseInertiaThreshold = 0.02 + characterInertia * 0.25, in thousandths of 1/Unit
BaseInertiaThresholdNegated(characterInertia) ==
  20 * Unit - characterInertia * (Unit \div 4)
BaseInertiaThreshold(characterInertia) ==
  20 * Unit + characterInertia * (Unit \div 4)

\* edgeThreshold = clamp01(1 - outlineSensitivity) * SOBEL_MAX_MAGNITUDE
EdgeThresholdDirect(outlineSensitivity) ==
  MulMilli(SOBEL_MAX_MAGNITUDE, clamp01m(outlineSensitivity))
EdgeThreshold(outlineSensitivity) ==
  MulMilli(SOBEL_MAX_MAGNITUDE, clamp01m(Milli - outlineSensitivity))

\* the guards of the two error-diffusion passes
UsesFloydRgb(config) ==
  config.dithering > 0 /\ config.ditheringMode = "FLOYD" /\ config.colorizeDither
UsesFloydLumaAtZero(config) ==
  config.dithering >= 0 /\ config.ditheringMode = "FLOYD" /\ ~config.colorizeDither
UsesFloydLuma(config) ==
  config.dithering > 0 /\ config.ditheringMode = "FLOYD" /\ ~config.colorizeDither

\* ---- render, pass by pass. Each pass takes the frame record f built so
\* far and adds the values the source computes at that point.

\* a requested dimension held to a whole number from 1 upwards
ClampDimensionFromBelow(v) == Max(1, v)

\* Math.max(1, Math.min(Math.floor(v), MAX_DIM)) of a whole number v
ClampDimension(v) == Max(1, Min(v, MAX_DIM))

\* the sampling grid and the raw samples
GridPass(f) ==
  LET renderW == ClampDimension(f.width)
      renderH == ClampDimension(f.height)
      pixelFactor == Max(1, f.config.pixelate)
      resolution == Max(1, f.config.resolution)
      cols == Max(1, Max(1, renderW \div pixelFactor) \div resolution)
      rows == Max(1, Max(1, renderH \div pixelFactor) \div resolution)
  IN f @@ [renderW |-> renderW, renderH |-> renderH, cols |-> cols, rows |-> rows,
           sampleLen |-> cols * rows,
           shockIntensity |-> ShockIntensity(f.shockProgress),
           disciplinedFrameIndex |-> Max(0, f.frameIndex),
           rawData |-> Sample(f.source, f.brush, cols, rows)]

\* the temporal flags and the decision to reset the history
TemporalPass(f) ==
  LET config == f.config
      temporalEnabled == config.temporalEnabled
      temporalSignature == getTemporalSignature(config)
  IN f @@ [temporalEnabled |-> temporalEnabled,
           temporalBlend |-> clamp01m(config.temporalBlend),
           characterInertia |-> clamp01m(config.characterInertia),
           edgeTemporalBlend |-> clamp01m(config.edgeTemporalStability),
           temporalDiagnosticsEnabled |->
             temporalEnabled /\ config.temporalDiagnosticsEnabled,
           adaptiveInertiaEnabled |-> temporalEnabled /\ config.adaptiveInertiaEnabled,
           adaptiveInertiaStrength |-> clamp01m(config.adaptiveInertiaStrength),
           temporalGhostClamp |-> clamp01m(config.temporalGhostClamp),
           temporalSignature |-> temporalSignature,
           requiresTemporalReset |->
             temporalEnabled
             /\ (~f.e.temporalHistoryValid
                 \/ temporalSignature # f.e.appliedTemporalSignature
                 \/ f.e.lastTemporalSampleLen # f.sampleLen
                 \/ TemporalFrameDiscontinuity(f.e.lastTemporalFrameIndex,
                                               f.disciplinedFrameIndex))]

\* the reset itself, and whether this frame has a history to use
ResetPass(f) ==
  f @@ [e1 |-> IF f.requiresTemporalReset
               THEN [resetTemporalState(f.e, f.sampleLen)
                       EXCEPT !.appliedTemporalSignature = f.temporalSignature]
               ELSE f.e]

HistoryPass(f) ==
  f @@ [hasTemporalHistory |->
          f.temporalEnabled /\ f.e1.temporalHistoryValid
          /\ Len(f.e1.prevLumaBuffer) = f.sampleLen
          /\ Len(f.e1.prevCharGrid) = f.sampleLen,
        trackTemporalSignals |-> f.temporalDiagnosticsEnabled \/ f.adaptiveInertiaEnabled,
        palette |-> IF Len(f.config.palette) > 0 THEN f.config.palette
                    ELSE <<Black, White>>]

\* grading, then error diffusion over the graded colours
DitherRgb(f, graded, paletteRgb) ==
  IF UsesFloydRgb(f.config)
  THEN applyFloydSteinbergRGB(graded, f.cols, f.rows, f.config.dithering,
                              f.config.colorMode = "QUANTIZED", f.palette, paletteRgb)
  ELSE graded

GradingPass(f) ==
  f @@ [gradedBuffer |-> DitherRgb(f, applyGrading(f.rawData, f.config),
                                   getPaletteRgb(f.palette)),
        paletteRgb |-> getPaletteRgb(f.palette)]

\* luma, its blend with the previous frame, then error diffusion over luma
BlendLuma(f, luma) ==
  IF f.hasTemporalHistory /\ f.temporalBlend > 0
  THEN applyTemporalBlend(luma, f.e1.prevLumaBuffer, f.temporalBlend)
  ELSE luma

\* ordered dithering baked into the stored luma
DitherLumaBakingBayer(f, luma) ==
  IF f.config.ditheringMode = "BAYER" /\ f.config.dithering > 0
  THEN [i \in 1..Len(luma) |->
          clamp01(luma[i] + BayerOffset((i - 1) % f.cols, (i - 1) \div f.cols,
                                        f.config.dithering))]
  ELSE luma

DitherLuma(f, luma) ==
  IF UsesFloydLuma(f.config)
  THEN applyFloydSteinbergLuma(luma, f.cols, f.rows, f.config.dithering)
  ELSE luma

LumaPass(f) ==
  f @@ [lumaBuffer |->
          DitherLuma(f, BlendLuma(f, Stored([i \in 1..f.sampleLen |->
                                               LumaOf(f.gradedBuffer[i])])))]

\* edges: the Sobel pass, the blend of its magnitude with the previous frame's
BlendEdges(f, magnitude) ==
  IF f.hasTemporalHistory /\ f.edgeTemporalBlend > 0
     /\ Len(f.e1.prevEdgeMagnitude) = f.sampleLen
  THEN applyTemporalBlend(magnitude, f.e1.prevEdgeMagnitude, f.edgeTemporalBlend)
  ELSE magnitude

EdgeBuffers(f, edgeData) ==
  [edgeMagnitude |-> BlendEdges(f, edgeData.magnitude), edgeAngle |-> edgeData.angle]

EdgePass(f) ==
  f @@ (IF f.config.outlineEnabled
        THEN EdgeBuffers(f, computeEdgeData(f.lumaBuffer, f.cols, f.rows))
        ELSE [edgeMagnitude |-> f.e1.edgeMagnitude, edgeAngle |-> f.e1.edgeAngle])
    @@ [hasEdgeData |-> f.config.outlineEnabled,
        edgeThreshold |-> EdgeThreshold(f.config.outlineSensitivity),
        customRampEntries |-> getCustomRampEntries(f.config),
        semanticTokens |->
          IF f.config.customSemanticMapping
          THEN parseSemanticTokens(IF Len(f.config.semanticWord) = 0
                                   THEN DEFAULT_SEMANTIC_WORD ELSE f.config.semanticWord)
          ELSE <<>>]

\* ---- one cell of the grid, step by step
\* where the cell looks its values up, and the luminance it finds there
CellLookup(f, gridIdx) ==
  LET x == (gridIdx - 1) % f.cols
      y == (gridIdx - 1) \div f.cols
      sampleX == Max(0, Min(f.cols - 1,
                   LookupX(f.config, x, y, f.cols, f.rows, f.disciplinedFrameIndex,
                           f.shockIntensity) \div Milli))
      sampleY == Max(0, Min(f.rows - 1,
                   LookupY(f.config, x, y, f.cols, f.rows) \div Milli))
  IN [gridIdx |-> gridIdx, x |-> x, y |-> y, lIdx |-> sampleY * f.cols + sampleX + 1]

CellLuminance(f, c) ==
  c @@ [luminance |->
          IF f.config.ditheringMode = "BAYER" /\ f.config.dithering > 0
          THEN clamp01(f.lumaBuffer[c.lIdx] + BayerOffset(c.x, c.y, f.config.dithering))
          ELSE f.lumaBuffer[c.lIdx]]

\* the temporal signals of the cell
CellSignals(f, c) ==
  c @@ [lumaDelta |->
          IF f.hasTemporalHistory
          THEN Abs(c.luminance - f.e1.prevLumaBuffer[c.gridIdx]) ELSE 0,
        edgeDeltaNorm |->
          IF f.hasTemporalHistory /\ f.hasEdgeData
             /\ Len(f.e1.prevEdgeMagnitude) = f.sampleLen
          THEN clamp01(RoundDiv(Abs(f.edgeMagnitude[c.lIdx]
                                    - f.e1.prevEdgeMagnitude[c.gridIdx]) * Unit,
                                SOBEL_MAX_MAGNITUDE))
          ELSE 0,
        isEdge |-> f.hasEdgeData /\ f.edgeMagnitude[c.lIdx] > f.edgeThreshold]

\* the glyph of the mode for every cell, edge or not
CellGlyphOfModeOnly(f, c) ==
  c @@ [motionScore |->
          IF f.hasTemporalHistory
          THEN computeTemporalMotionScore(c.lumaDelta, c.edgeDeltaNorm) ELSE 0,
        naive |->
          getChar(c.luminance, f.config, c.x, c.y, f.disciplinedFrameIndex,
                  f.customRampEntries, f.semanticTokens)]

\* the glyph the cell selects on its own: an edge glyph or the mode's glyph
CellGlyph(f, c) ==
  c @@ [motionScore |->
          IF f.hasTemporalHistory
          THEN computeTemporalMotionScore(c.lumaDelta, c.edgeDeltaNorm) ELSE 0,
        naive |->
          IF c.isEdge THEN f.edgeAngle[c.lIdx]
          ELSE getChar(c.luminance, f.config, c.x, c.y, f.disciplinedFrameIndex,
                       f.customRampEntries, f.semanticTokens)]

\* character inertia: whether the cell keeps the glyph it showed before
InertiaThreshold(f, c, baseInertiaThreshold) ==
  IF f.adaptiveInertiaEnabled
  THEN RoundDiv(
         baseInertiaThreshold
           * Max(100,
                 RoundDiv((Milli - RoundDiv(f.adaptiveInertiaStrength * c.motionScore, Unit))
                            * (Milli - RoundDiv(
                                 f.adaptiveInertiaStrength
                                   * (IF f.hasEdgeData
                                      THEN clamp01(RoundDiv(f.edgeMagnitude[c.lIdx] * Unit,
                                                            SOBEL_MAX_MAGNITUDE))
                                      ELSE 0),
                                 2 * Unit)),
                          Milli)),
         Milli)
  ELSE baseInertiaThreshold

CellDecision(f, c) ==
  c @@ [decided |-> f.hasTemporalHistory /\ f.characterInertia > 0
                    /\ f.shockIntensity = 0
                    /\ f.e1.prevCharGrid[c.gridIdx] # c.naive]

\* the lock without the ghost clamp: allowPersistence stays true
CellLockWithoutGhostClamp(f, c) ==
  c @@ [locked |->
          c.decided
          /\ c.lumaDelta * Milli
               < InertiaThreshold(f, c, BaseInertiaThreshold(f.characterInertia))]

CellLock(f, c) ==
  c @@ [locked |->
          c.decided
          /\ ~(f.adaptiveInertiaEnabled
               /\ c.motionScore * 100 * Milli > (20 * Milli + f.temporalGhostClamp * 55) * Unit)
          /\ c.lumaDelta * Milli
               < InertiaThreshold(f, c, BaseInertiaThreshold(f.characterInertia))]

\* the colour of the cell: the graded colour, Bayer-perturbed and shock-tinted
Perturb(f, c, v, tint) ==
  LET useBayerRgb == f.config.colorizeDither /\ f.config.ditheringMode = "BAYER"
                     /\ f.config.dithering > 0
      v1 == IF useBayerRgb
            THEN clamp01(v + BayerOffset(c.x, c.y, f.config.dithering)) ELSE v
  IN IF f.shockIntensity > 0
     THEN clamp01(v1 + RoundDiv(f.shockIntensity * tint * Unit, 10 * Milli))
     ELSE v1

FillStyle(f, c, r, g, b) ==
  IF c.isEdge THEN f.config.outlineColor
  ELSE IF f.config.colorMode = "MONO"
       THEN (IF Len(f.palette) >= 2 THEN f.palette[2]
             ELSE <<"#", "0", "0", "f", "f", "0", "0">>)
  ELSE IF f.config.colorMode = "GRADIENT"
       THEN GradientLutAt(f.palette, Max(0, Min(255, RoundDiv(c.luminance, 8))))
  ELSE IF f.config.colorMode = "QUANTIZED"
       THEN findNearestColor(r, g, b, f.palette, f.paletteRgb)
  ELSE RgbString(RoundDiv(r, 8), RoundDiv(g, 8), RoundDiv(b, 8))

CellFill(f, c, graded) ==
  FillStyle(f, c, Perturb(f, c, graded.r, 4), Perturb(f, c, graded.g, -1),
            Perturb(f, c, graded.b, 1))

CellDraw(f, c) ==
  LET char == IF c.locked THEN f.e1.prevCharGrid[c.gridIdx] ELSE c.naive
  IN c @@ [char |-> char,
           fill |-> IF char = " " THEN NoFill ELSE CellFill(f, c, f.gradedBuffer[c.lIdx])]

CellPass(f) ==
  f @@ [cells |->
          Stored([gridIdx \in 1..f.sampleLen |->
                    CellDraw(f, CellLock(f, CellDecision(f, CellGlyph(f,
                      CellSignals(f, CellLuminance(f, CellLookup(f, gridIdx)))))))])]

\* ---- what the frame adds up to
CountCells(cells, P(_)) == Cardinality({i \in 1..Len(cells) : P(cells[i])})

CountPass(f) ==
  LET glyphs == {f.cells[i].char : i \in 1..f.sampleLen} \ {" "}
  IN f @@ [nonSpaceChars |-> CountCells(f.cells, LAMBDA c : c.char # " "),
           temporalLockCount |-> CountCells(f.cells, LAMBDA c : c.locked),
           temporalDecisionCount |-> CountCells(f.cells, LAMBDA c : c.decided),
           temporalSampleCount |-> IF f.hasTemporalHistory THEN f.sampleLen ELSE 0,
           charCounts |->
             [g \in glyphs |-> CountCells(f.cells, LAMBDA c : c.char = g)]]

MeanOver(total, count) == IF count > 0 THEN RoundDiv(total, count) ELSE 0

temporalSummary(f) ==
  IF f.temporalEnabled
  THEN [defined |-> TRUE,
        lockRatio |-> IF f.temporalDecisionCount > 0
                      THEN RoundDiv(f.temporalLockCount * Milli, f.temporalDecisionCount)
                      ELSE 0,
        meanLumaDelta |->
          MeanOver(SumSeq([i \in 1..f.sampleLen |-> f.cells[i].lumaDelta]),
                   f.temporalSampleCount),
        meanEdgeDelta |->
          MeanOver(SumSeq([i \in 1..f.sampleLen |-> f.cells[i].edgeDeltaNorm]),
                   f.temporalSampleCount),
        meanMotion |->
          MeanOver(SumSeq([i \in 1..f.sampleLen |-> f.cells[i].motionScore]),
                   f.temporalSampleCount)]
  ELSE NoTemporal

\* the entropy of the glyph counts in thousandths of a bit:
\* -sum p log2 p = the mean over the drawn cells of log2(total / count of its glyph)
GlyphBits(f) ==
  RoundDiv(SumSeq([i \in 1..f.sampleLen |->
                     IF f.cells[i].char = " " THEN 0
                     ELSE Log2Milli[f.nonSpaceChars]
                          - Log2Milli[f.charCounts[f.cells[i].char]]]),
           f.nonSpaceChars)

\* the entropy left in bits, not divided by its maximum
EntropyInBits(f, maxEntropy) == IF f.nonSpaceChars > 0 THEN GlyphBits(f) ELSE 0

Entropy(f, maxEntropy) ==
  IF f.nonSpaceChars > 0 /\ maxEntropy > 0
  THEN RoundDiv(GlyphBits(f) * Milli, maxEntropy)
  ELSE 0

Metrics(f) ==
  [averageLuminance |-> RoundDiv(SumSeq(f.lumaBuffer), f.sampleLen),
   density |-> RoundDiv(f.nonSpaceChars * Milli, f.sampleLen),
   entropy |-> Entropy(f, Log2Milli[Max(1, Cardinality(DOMAIN f.charCounts))]),
   dominantColor |->
     rgbToHex(RoundDiv(SumSeq([i \in 1..f.sampleLen |-> f.gradedBuffer[i].r]),
                       8 * f.sampleLen),
              RoundDiv(SumSeq([i \in 1..f.sampleLen |-> f.gradedBuffer[i].g]),
                       8 * f.sampleLen),
              RoundDiv(SumSeq([i \in 1..f.sampleLen |-> f.gradedBuffer[i].b]),
                       8 * f.sampleLen)),
   temporal |-> temporalSummary(f)]

\* the buffers of the engine after the frame
SignalBuffers(f, e) ==
  IF f.trackTemporalSignals
  THEN [e EXCEPT
          !.temporalLumaDeltaBuffer = [i \in 1..f.sampleLen |-> f.cells[i].lumaDelta],
          !.temporalEdgeDeltaBuffer = [i \in 1..f.sampleLen |-> f.cells[i].edgeDeltaNorm],
          !.temporalMotionBuffer = [i \in 1..f.sampleLen |-> f.cells[i].motionScore],
          !.temporalLockBuffer =
              [i \in 1..f.sampleLen |-> IF f.cells[i].locked THEN Unit ELSE 0]]
  ELSE e

HistoryUpdateKeepingHistory(f, e) ==
  IF f.temporalEnabled
  THEN [e EXCEPT
          !.prevLumaBuffer = f.lumaBuffer,
          !.prevEdgeMagnitude = IF f.hasEdgeData THEN f.edgeMagnitude
                                ELSE Zeros(f.sampleLen),
          !.prevCharGrid = [i \in 1..f.sampleLen |-> f.cells[i].char],
          !.temporalHistoryValid = TRUE,
          !.lastTemporalFrameIndex = f.disciplinedFrameIndex,
          !.lastTemporalSampleLen = f.sampleLen,
          !.appliedTemporalSignature = f.temporalSignature]
  ELSE e
HistoryUpdateWithoutFrameIndex(f, e) ==
  IF f.temporalEnabled
  THEN [e EXCEPT
          !.prevLumaBuffer = f.lumaBuffer,
          !.prevEdgeMagnitude = IF f.hasEdgeData THEN f.edgeMagnitude
                                ELSE Zeros(f.sampleLen),
          !.prevCharGrid = [i \in 1..f.sampleLen |-> f.cells[i].char],
          !.temporalHistoryValid = TRUE,
          !.lastTemporalSampleLen = f.sampleLen,
          !.appliedTemporalSignature = f.temporalSignature]
  ELSE [e EXCEPT
          !.prevLumaBuffer = <<>>,
          !.prevEdgeMagnitude = <<>>,
          !.prevCharGrid = <<>>,
          !.temporalHistoryValid = FALSE,
          !.lastTemporalFrameIndex = -1,
          !.lastTemporalSampleLen = 0,
          !.appliedTemporalSignature = NoSignature]
HistoryUpdate(f, e) ==
  IF f.temporalEnabled
  THEN [e EXCEPT
          !.prevLumaBuffer = f.lumaBuffer,
          !.prevEdgeMagnitude = IF f.hasEdgeData THEN f.edgeMagnitude
                                ELSE Zeros(f.sampleLen),
          !.prevCharGrid = [i \in 1..f.sampleLen |-> f.cells[i].char],
          !.temporalHistoryValid = TRUE,
          !.lastTemporalFrameIndex = f.disciplinedFrameIndex,
          !.lastTemporalSampleLen = f.sampleLen,
          !.appliedTemporalSignature = f.temporalSignature]
  ELSE [e EXCEPT
          !.prevLumaBuffer = <<>>,
          !.prevEdgeMagnitude = <<>>,
          !.prevCharGrid = <<>>,
          !.temporalHistoryValid = FALSE,
          !.lastTemporalFrameIndex = -1,
          !.lastTemporalSampleLen = 0,
          !.appliedTemporalSignature = NoSignature]

EngineAfter(f) ==
  HistoryUpdate(f, SignalBuffers(f,
    [f.e1 EXCEPT !.canvas = [width |-> f.renderW, height |-> f.renderH],
                 !.gradedBuffer = f.gradedBuffer,
                 !.lumaBuffer = f.lumaBuffer,
                 !.edgeMagnitude = f.edgeMagnitude,
                 !.edgeAngle = f.edgeAngle]))

\* drawTemporalDiagnosticsOverlay: the text line under the mode name
DiagnosticsLine(f) ==
  IF f.temporalDiagnosticsEnabled /\ f.renderDiagnosticsOverlay
  THEN (IF ~f.hasTemporalHistory THEN "WARMUP" ELSE "LOCK")
  ELSE "none"

FrameResult(f) ==
  [eng |-> EngineAfter(f),
   out |-> [rendered |-> TRUE, frameIndex |-> f.disciplinedFrameIndex,
            cols |-> f.cols, rows |-> f.rows,
            charGrid |-> [i \in 1..f.sampleLen |-> f.cells[i].char],
            naive |-> [i \in 1..f.sampleLen |-> f.cells[i].naive],
            luminance |-> [i \in 1..f.sampleLen |-> f.cells[i].luminance],
            fills |-> [i \in 1..f.sampleLen |-> f.cells[i].fill],
            isEdge |-> [i \in 1..f.sampleLen |-> f.cells[i].isEdge],
            locked |-> [i \in 1..f.sampleLen |-> f.cells[i].locked],
            lumaDelta |-> [i \in 1..f.sampleLen |-> f.cells[i].lumaDelta],
            edgeDeltaNorm |-> [i \in 1..f.sampleLen |-> f.cells[i].edgeDeltaNorm],
            motionScore |-> [i \in 1..f.sampleLen |-> f.cells[i].motionScore],
            charCounts |-> f.charCounts,
            metrics |-> Metrics(f),
            hasTemporalHistory |-> f.hasTemporalHistory,
            requiresTemporalReset |-> f.requiresTemporalReset,
            temporalLockCount |-> f.temporalLockCount,
            temporalDecisionCount |-> f.temporalDecisionCount,
            diagnostics |-> DiagnosticsLine(f)]]

\* render past its first statement: the frame is sampled and drawn
renderWithoutEmptyReturn(e, source, brush, config, width, height, frameIndex, shockProgress, renderDiagnosticsOverlay) ==
  FrameResult(CountPass(CellPass(EdgePass(LumaPass(GradingPass(HistoryPass(
         ResetPass(TemporalPass(GridPass(
           [e |-> e, source |-> source, brush |-> brush, config |-> config,
            width |-> width, height |-> height, frameIndex |-> frameIndex,
            shockProgress |-> shockProgress,
            renderDiagnosticsOverlay |-> renderDiagnosticsOverlay]))))))))))

render(e, source, brush, config, width, height, frameIndex, shockProgress, renderDiagnosticsOverlay) ==
  IF source = NoSource /\ ~brush THEN [eng |-> e, out |-> EmptyResult]
  ELSE renderWithoutEmptyReturn(e, source, brush, config, width, height, frameIndex,
                                shockProgress, renderDiagnosticsOverlay)

\* ===================================================================
\* The application's configuration state (App.tsx)
\* ===================================================================
\* A value found in a field of an object handed to the configuration setter,
\* as JavaScript sees it: a finite number, a string that parses as one, or a
\* value of another kind; an array carries its entries.  Numbers are in the
\* unit of the field they are written to (thousandths, whole degrees for hue).
Num(n) == [kind |-> "number", n |-> n, entries |-> <<>>]
NumericString(n) == [kind |-> "numeric string", n |-> n, entries |-> <<>>]
Other(kind) == [kind |-> kind, n |-> 0, entries |-> <<>>]
Array(entries) == [kind |-> "array", n |-> 0, entries |-> entries]
Undefined == Other("undefined")

\* typeof value === 'number' ? value : Number(value), and Number.isFinite of it
Parsed(value) ==
  CASE value.kind \in {"number", "numeric string"} -> [finite |-> TRUE, n |-> value.n]
    [] value.kind \in {"null", "empty string", "empty array"} -> [finite |-> TRUE, n |-> 0]
    [] OTHER -> [finite |-> FALSE, n |-> 0]

\* toNumberSafe without its two clamps
toNumberSafeUnclamped(value, fallback, min, max) ==
  IF Parsed(value).finite THEN Parsed(value).n ELSE fallback

toNumberSafe(value, fallback, min, max) ==
  LET parsed == Parsed(value)
      numeric == IF parsed.finite THEN parsed.n ELSE fallback
  IN Min(max, Max(min, numeric))

\* /^#([0-9a-f]{6})$/i
IsHexColor(entry) ==
  Len(entry) = 7 /\ entry[1] = "#" /\ \A i \in 2..7 : entry[i] \in DOMAIN HexDigits

\* normalizePaletteColors: the first 32 well-formed colours of an array, or a
\* copy of the fallback (an entry that is no string is modelled as the empty one)
normalizePaletteColors(value, fallback) ==
  IF value.kind # "array" THEN fallback
  ELSE LET trimmed == [i \in 1..Len(value.entries) |-> Trim(value.entries[i])]
           valid == SelectSeq(trimmed, IsHexColor)
           normalized == SubSeq(valid, 1, Min(32, Len(valid)))
       IN IF Len(normalized) > 0 THEN normalized ELSE fallback

\* the range sanitizeEngineConfig holds each numeric field to (in the unit of
\* the field; resolution and frameRate are rounded after the clamp)
NumericRange ==
  [resolution |-> <<1 * Milli, 128 * Milli>>, brightness |-> <<0, 3 * Milli>>,
   contrast |-> <<0, 3 * Milli>>, hue |-> <<-180, 180>>,
   saturation |-> <<0, 4 * Milli>>, lightness |-> <<0, 4 * Milli>>,
   gamma |-> <<100, 4 * Milli>>, dithering |-> <<0, Milli>>,
   outlineSensitivity |-> <<0, 990>>, temporalBlend |-> <<0, 950>>,
   characterInertia |-> <<0, Milli>>, distortionStrength |-> <<0, 10 * Milli>>,
   frameRate |-> <<1 * Milli, 120 * Milli>>]
NumericFields == DOMAIN NumericRange
RoundedFields == {"resolution", "frameRate"}

\* source.<name> of the object handed to the setter
FieldOf(source, name) == IF name \in DOMAIN source THEN source[name] ELSE Undefined

\* one numeric field of sanitizeEngineConfig
SanitizedNumber(source, fallback, name) ==
  IF name \in RoundedFields
  THEN RoundDiv(toNumberSafe(FieldOf(source, name), fallback[name] * Milli,
                             NumericRange[name][1], NumericRange[name][2]), Milli)
  ELSE toNumberSafe(FieldOf(source, name), fallback[name],
                    NumericRange[name][1], NumericRange[name][2])

\* sanitizeEngineConfig(value, fallback) on the numeric fields and the palette;
\* a value that is no object is the empty source.  The enumerations, flags
\* and strings keep the fallback's value here.
sanitizeEngineConfig(source, fallback) ==
  [name \in DOMAIN fallback |->
     IF name \in NumericFields THEN SanitizedNumber(source, fallback, name)
     ELSE IF name = "palette"
          THEN normalizePaletteColors(FieldOf(source, "palette"), fallback.palette)
          ELSE fallback[name]]

\* useState's initial configState: PRESETS.DEFAULT with the overrides of App
\* (the palette is the model's four-colour one, as in DefaultConfig)
InitialConfigState ==
  [DefaultConfig EXCEPT !.resolution = 12, !.colorMode = "MONO"] @@ [frameRate |-> 30]

\* { ...prev }: the state as an object handed back to the setter
Spread(prev) ==
  [name \in NumericFields \cup {"palette"} |->
     IF name = "palette" THEN Array(prev.palette)
     ELSE IF name \in RoundedFields THEN Num(prev[name] * Milli)
     ELSE Num(prev[name])]

\* ===================================================================
\* State machine
\* ===================================================================
\* engines[i]: the fields of engine instance i
\* last[i]:    what the latest render call on instance i returned
\* hist[i]:    the inputs and the glyph grid of the latest call on instance i
\*             that rendered a frame
\* call:       the operation performed by the latest step, with hist[i] as it
\*             was before the step
\* staticOut:  the frame of the latest static render
\* runs:       the script of a repeated run and the frames its runs produced
\* ctl:        the family of inputs explored in this behaviour, the number of
\*             calls made, and the configurations fixed for the behaviour (the
\*             two of a lockstep pair, or the one of a playback)
\* app:        the application around the engine: its configuration state, the
\*             number of updates made through the setter and the latest one,
\*             and the refs of the live frame scheduler
VARIABLES engines, last, hist, call, staticOut, runs, ctl, app

vars == <<engines, last, hist, call, staticOut, runs, ctl, app>>

Instances == {1, 2}

NoInputs == [frameIndex |-> -1, config |-> DefaultConfig, source |-> NoSource,
             brush |-> FALSE, width |-> 0, height |-> 0, shockProgress |-> -1]
NoHist == [valid |-> FALSE, charGrid |-> <<>>] @@ NoInputs
NoCall == [op |-> "none", inst |-> 0, before |-> NoHist] @@ NoInputs
NoRuns == [script |-> <<>>, run |-> 0, pos |-> 0, inst |-> 0, outs |-> <<>>]
NoEdit == [field |-> "none", kind |-> "none", n |-> 0]
NoApp == [config |-> InitialConfigState, updates |-> 0, edit |-> NoEdit,
          rafTime |-> 0, shockTrigger |-> 0, lastShockTrigger |-> 0,
          shockStartFrame |-> -1]

\* ---- configurations explored
Temporal == [DefaultConfig EXCEPT !.temporalEnabled = TRUE, !.temporalBlend = 500,
                                  !.characterInertia = 500]
TemporalDiagnostics == [Temporal EXCEPT !.temporalDiagnosticsEnabled = TRUE]
\* (with seed 15 one cell of the "split" frame changes its glyph from frame 0 to 1)
TemporalMatrix == [Temporal EXCEPT !.mode = "MATRIX", !.seed = 15]
TemporalInverted == [Temporal EXCEPT !.inverted = TRUE]
TemporalStiff == [Temporal EXCEPT !.temporalBlend = 900, !.characterInertia = 1000]
Quantized == [DefaultConfig EXCEPT !.colorMode = "QUANTIZED"]
QuantizedOutlined == [Quantized EXCEPT !.outlineEnabled = TRUE,
                                       !.outlineSensitivity = 600]
QuantizedBayer == [Quantized EXCEPT !.dithering = 500, !.colorizeDither = TRUE]
UserRamp ==
  << [char |-> <<"#">>, brightness |-> 1000, semanticValue |-> <<"a">>],
     [char |-> <<"o">>, brightness |-> 500,  semanticValue |-> <<>>],
     [char |-> <<".">>, brightness |-> 0,    semanticValue |-> <<>>] >>
CustomRamp == [DefaultConfig EXCEPT !.customRampEnabled = TRUE,
                                    !.customRampEntries = UserRamp,
                                    !.customRampName = "USER"]
CustomRampInverted == [CustomRamp EXCEPT !.inverted = TRUE]
CustomRampMatrix == [CustomRamp EXCEPT !.mode = "MATRIX"]
CustomRampSemantic == [CustomRamp EXCEPT !.mode = "SEMANTIC",
                                         !.customSemanticMapping = TRUE]
CustomRampBlocks == [CustomRamp EXCEPT !.mode = "ANSI_BLOCK"]

Families == {"discontinuity", "signature", "static", "instances", "color", "ramp"}

ConfigsOf(family) ==
  CASE family = "discontinuity" -> {TemporalDiagnostics}
    [] family = "signature" -> {Temporal, TemporalMatrix, TemporalInverted, TemporalStiff}
    [] family = "static" -> {Temporal, DefaultConfig}
    [] family = "instances" -> {Temporal}
    [] family = "color" -> {Quantized, QuantizedOutlined, QuantizedBayer}
    [] family = "ramp" -> {CustomRamp, CustomRampInverted, CustomRampMatrix,
                           CustomRampSemantic, CustomRampBlocks}
    [] OTHER -> {DefaultConfig}

\* the frames offered: <<source, brush layer present>>
FrameInputsOf(family) ==
  CASE family = "discontinuity" -> {<<"gradient", FALSE>>, <<NoSource, FALSE>>}
    [] family = "signature" -> {<<"split", FALSE>>}
    [] family = "instances" -> {<<"gradient", FALSE>>, <<"step", FALSE>>}
    [] family = "color" -> {<<"gradient", FALSE>>, <<"step", FALSE>>}
    [] family = "ramp" -> {<<"step", FALSE>>, <<NoSource, TRUE>>}
    [] family = "dither" -> {<<"gradient", FALSE>>, <<"step", FALSE>>, <<"split", FALSE>>}
    [] family = "grading" -> {<<"gradient", FALSE>>}
    [] family = "glyphs" -> {<<"gradient", FALSE>>, <<"step", FALSE>>, <<"split", FALSE>>}
    [] family = "metrics" -> {<<"black", FALSE>>, <<"split", FALSE>>, <<"gradient", FALSE>>}
    [] family = "flat" -> {<<"gradient", FALSE>>, <<"gray", FALSE>>, <<NoSource, FALSE>>}
    [] family = "live" -> {<<"gradient", FALSE>>, <<"split", FALSE>>}
    [] family = "persist" -> {<<"gradient", FALSE>>, <<"step", FALSE>>, <<"split", FALSE>>}
    [] family = "regrid" -> {<<"gradient", FALSE>>, <<"split", FALSE>>}
    [] family = "buffers" -> {<<"gradient", FALSE>>, <<NoSource, FALSE>>}
    [] family = "history" -> {<<"split", FALSE>>}
    [] family = "matrix" -> {<<"gradient", FALSE>>, <<"split", FALSE>>, <<"black", FALSE>>}
    [] family = "edges" -> {<<"gradient", FALSE>>, <<"step", FALSE>>, <<"split", FALSE>>, <<"gray", FALSE>>}
    [] OTHER -> {<<"gradient", FALSE>>}

InstancesOf(family) == IF family = "instances" THEN Instances ELSE {1}
SizeOf(family) == <<3, 3>>
\* the sizes requested of a playback under a configuration; the family "sizes"
\* asks for sizes at and beyond both ends of the raster's range, on grids kept
\* small by the cell size (resolution x pixelate) of the configuration
SizesOf(family, config) ==
  CASE family = "metrics" -> {<<1, 1>>, SizeOf(family)}
    [] family = "sizes" ->
         LET cell == Max(1, config.resolution) * Max(1, config.pixelate)
         IN IF cell >= 2048
            THEN {<<MAX_DIM, MAX_DIM>>, <<MAX_DIM + cell, cell>>, <<1, MAX_DIM + cell>>,
                  <<0, MAX_DIM - 1>>}
            ELSE {<<0, 0>>, <<-5, 2 * cell>>, <<cell, cell>>, <<3 * cell, 2 * cell + 1>>}
    [] family = "buffers" -> {<<2, 2>>, SizeOf(family)}
    [] family = "history" -> {<<2, 2>>, SizeOf(family)}
    [] family = "regrid" -> {<<2, 3>>, <<3, 2>>, <<4, 2>>, <<2, 4>>}
    [] OTHER -> {SizeOf(family)}

\* the frame indices offered to instance i: the next one, the one after it, and
\* for the families that seek backwards the first one
FrameIndicesOf(family, lastIndex) ==
  {lastIndex + 1}
  \cup (IF family \in {"color", "ramp"} THEN {} ELSE {lastIndex + 2})
  \cup (IF family \in {"discontinuity", "static"} THEN {0} ELSE {})

Init ==
  /\ engines = [i \in Instances |-> NewEngine]
  /\ last = [i \in Instances |-> EmptyResult]
  /\ hist = [i \in Instances |-> NoHist]
  /\ call = NoCall
  /\ staticOut = EmptyResult
  /\ runs = NoRuns
  /\ ctl \in [family : Families, calls : {0}, pair : {<<>>}]
  /\ app = NoApp

\* the engine whose fields a call on instance i reads and writes: its own
FieldsShared(i) == 1
FieldsOf(i) == i

\* engine.render(source, config, width, height, frameIndex, brush, shockProgress)
\* on instance i, as the frame scheduler and the exports call it
Render(i, source, brush, config, size, frameIndex, shockProgress) ==
  LET res == render(engines[FieldsOf(i)], source, brush, config, size[1], size[2],
                    frameIndex, shockProgress, TRUE)
      inputs == [frameIndex |-> frameIndex, config |-> config, source |-> source,
                 brush |-> brush, width |-> size[1], height |-> size[2],
                 shockProgress |-> shockProgress]
  IN /\ engines' = [engines EXCEPT ![FieldsOf(i)] = res.eng]
     /\ last' = [last EXCEPT ![i] = res.out]
     /\ hist' = IF res.out.rendered
                THEN [hist EXCEPT ![i] = [valid |-> TRUE, charGrid |-> res.out.charGrid]
                                         @@ inputs]
                ELSE hist
     /\ call' = [op |-> "render", inst |-> i, before |-> hist[i]] @@ inputs

RenderStep ==
  /\ ctl.calls < MaxCalls
  /\ \E i \in InstancesOf(ctl.family), config \in ConfigsOf(ctl.family),
        f \in FrameInputsOf(ctl.family) :
       \E frameIndex \in FrameIndicesOf(ctl.family, hist[i].frameIndex) :
         Render(i, f[1], f[2], config, SizeOf(ctl.family), frameIndex, -1)
  /\ ctl' = [ctl EXCEPT !.calls = @ + 1]
  /\ UNCHANGED <<staticOut, runs, app>>

\* the engine a static render runs on: 0 is the engine it constructs for the call
StaticRenderTargetThis(i) == i
StaticRenderTarget(i) == 0

\* engines[i].triggerStaticRender(source, config, w, h, brush)
TriggerStaticRender(i, source, brush, config, size) ==
  LET t == StaticRenderTarget(i)
      engine == IF t = 0 THEN NewEngine ELSE engines[t]
      res == render(engine, source, brush, config, size[1], size[2], 0, -1, FALSE)
  IN /\ engines' = IF t = 0 THEN engines ELSE [engines EXCEPT ![t] = res.eng]
     /\ staticOut' = res.out
     /\ call' = [op |-> "static", inst |-> i, before |-> hist[i]]
                @@ [frameIndex |-> 0, config |-> config, source |-> source,
                    brush |-> brush, width |-> size[1], height |-> size[2],
                    shockProgress |-> -1]
     /\ UNCHANGED <<last, hist>>

StaticStep ==
  /\ ctl.family = "static"
  /\ ctl.calls < MaxCalls
  /\ \E config \in ConfigsOf(ctl.family), f \in FrameInputsOf(ctl.family) :
       TriggerStaticRender(1, f[1], f[2], config, SizeOf(ctl.family))
  /\ ctl' = [ctl EXCEPT !.calls = @ + 1]
  /\ UNCHANGED <<runs, app>>

Next == RenderStep \/ StaticStep

Spec == Init /\ [][Next]_vars

\* ---- two engines rendering the same frames in lockstep, each under its own
\* configuration (ctl.pair)
Outlined == [DefaultConfig EXCEPT !.outlineEnabled = TRUE]
TemporalOutlined == [Temporal EXCEPT !.outlineEnabled = TRUE]
Sensitivities == {<<0, 400>>, <<400, 550>>, <<550, 990>>, <<0, 990>>}
SensitivityPairs ==
  {<<[base EXCEPT !.outlineSensitivity = s[1]], [base EXCEPT !.outlineSensitivity = s[2]]>> :
     base \in {Outlined, TemporalOutlined}, s \in Sensitivities}
DitherPairs ==
  {<<[base EXCEPT !.dithering = 0, !.ditheringMode = mode, !.colorizeDither = colorize],
     [base EXCEPT !.dithering = 0, !.ditheringMode = "NONE", !.colorizeDither = colorize]>> :
     base \in {DefaultConfig, Quantized}, mode \in {"BAYER", "FLOYD"},
     colorize \in BOOLEAN}
PairFrames == {<<"gradient", FALSE>>, <<"step", FALSE>>, <<"split", FALSE>>}

PairInit ==
  /\ engines = [i \in Instances |-> NewEngine]
  /\ last = [i \in Instances |-> EmptyResult]
  /\ hist = [i \in Instances |-> NoHist]
  /\ call = NoCall
  /\ staticOut = EmptyResult
  /\ runs = NoRuns
  /\ ctl \in [family : {"pair"}, calls : {0}, pair : SensitivityPairs \cup DitherPairs]
  /\ app = NoApp

\* engine 1 renders the frame under ctl.pair[1], engine 2 under ctl.pair[2]
RenderPair(source, brush, size, frameIndex) ==
  LET resA == render(engines[1], source, brush, ctl.pair[1], size[1], size[2],
                     frameIndex, -1, TRUE)
      resB == render(engines[2], source, brush, ctl.pair[2], size[1], size[2],
                     frameIndex, -1, TRUE)
      inputs == [frameIndex |-> frameIndex, source |-> source,
                 brush |-> brush, width |-> size[1], height |-> size[2],
                 shockProgress |-> -1]
  IN /\ engines' = [engines EXCEPT ![1] = resA.eng, ![2] = resB.eng]
     /\ last' = [last EXCEPT ![1] = resA.out, ![2] = resB.out]
     /\ hist' = [hist EXCEPT
                   ![1] = [valid |-> TRUE, charGrid |-> resA.out.charGrid,
                           config |-> ctl.pair[1]] @@ inputs,
                   ![2] = [valid |-> TRUE, charGrid |-> resB.out.charGrid,
                           config |-> ctl.pair[2]] @@ inputs]
     /\ call' = [op |-> "pair", inst |-> 1, before |-> hist[1],
                 config |-> ctl.pair[1]] @@ inputs

PairStep ==
  /\ ctl.calls < MaxCalls
  /\ \E f \in PairFrames :
       RenderPair(f[1], f[2], SizeOf(ctl.family), hist[1].frameIndex + 1)
  /\ ctl' = [ctl EXCEPT !.calls = @ + 1]
  /\ UNCHANGED <<staticOut, runs, app>>

PairNext == PairStep

PairSpec == PairInit /\ [][PairNext]_vars

\* ---- one script (a configuration, a strictly increasing sequence of frame
\* indices, the source of each frame) run on instance 1, then run again
IndexSequenceOf(S) ==
  CHOOSE s \in [1..Cardinality(S) -> S] :
    \A i, j \in 1..Cardinality(S) : i < j => s[i] < s[j]
IndexSequences == {IndexSequenceOf(S) : S \in (SUBSET (0..MaxFrame)) \ {{}}}
ScriptSources == {<<"split", "split">>, <<"gradient", "step">>}
Scripts == [config : {Temporal, TemporalMatrix}, indices : IndexSequences,
            sources : ScriptSources]

RerunInit ==
  /\ engines = [i \in Instances |-> NewEngine]
  /\ last = [i \in Instances |-> EmptyResult]
  /\ hist = [i \in Instances |-> NoHist]
  /\ call = NoCall
  /\ staticOut = EmptyResult
  /\ runs \in [script : Scripts, run : {1}, pos : {0}, inst : {1}, outs : {<<>>}]
  /\ ctl = [family |-> "rerun", calls |-> 0, pair |-> <<>>]
  /\ app = NoApp

\* the next frame of the script, on the instance of the current run
ScriptStep ==
  /\ runs.pos < Len(runs.script.indices)
  /\ Render(runs.inst,
            runs.script.sources[(runs.pos % Len(runs.script.sources)) + 1], FALSE,
            runs.script.config, SizeOf(ctl.family),
            runs.script.indices[runs.pos + 1], -1)
  /\ runs' = [runs EXCEPT !.pos = @ + 1,
                          !.outs = IF runs.run = 1 THEN Append(@, last'[runs.inst])
                                   ELSE @]
  /\ UNCHANGED <<staticOut, ctl, app>>

\* the script is run again: on the same instance, or on one just constructed
StartRerun ==
  /\ runs.run = 1
  /\ runs.pos = Len(runs.script.indices)
  /\ \E inst \in Instances : runs' = [runs EXCEPT !.run = 2, !.pos = 0, !.inst = inst]
  /\ UNCHANGED <<engines, last, hist, call, staticOut, ctl, app>>

RerunNext == ScriptStep \/ StartRerun

RerunSpec == RerunInit /\ [][RerunNext]_vars

\* ---- one engine playing frames back under a configuration fixed for the
\* behaviour (ctl.pair[1])
PlaybackInit(family, configs) ==
  /\ engines = [i \in Instances |-> NewEngine]
  /\ last = [i \in Instances |-> EmptyResult]
  /\ hist = [i \in Instances |-> NoHist]
  /\ call = NoCall
  /\ staticOut = EmptyResult
  /\ runs = NoRuns
  /\ ctl \in [family : {family}, calls : {0}, pair : {<<c>> : c \in configs}]
  /\ app = NoApp

PlaybackStep ==
  /\ ctl.calls < MaxCalls
  /\ \E f \in FrameInputsOf(ctl.family), size \in SizesOf(ctl.family, ctl.pair[1]) :
       Render(1, f[1], f[2], ctl.pair[1], size, hist[1].frameIndex + 1, -1)
  /\ ctl' = [ctl EXCEPT !.calls = @ + 1]
  /\ UNCHANGED <<staticOut, runs, app>>

PlaybackNext == PlaybackStep

\* ---- playback under each dithering algorithm, amount and colorize setting
DitherConfigs ==
  {[base EXCEPT !.dithering = amount, !.ditheringMode = mode, !.colorizeDither = colorize] :
     base \in {DefaultConfig, Quantized, Temporal}, amount \in {500, 1000},
     mode \in {"BAYER", "FLOYD"}, colorize \in BOOLEAN}

DitherInit == PlaybackInit("dither", DitherConfigs)

DitherSpec == DitherInit /\ [][PlaybackNext]_vars

\* ---- playback under grading parameters at the ends of their ranges and at
\* their defaults
GradingConfigs ==
  {[DefaultConfig EXCEPT !.brightness = brightness, !.contrast = contrast, !.hue = hue,
                         !.saturation = saturation, !.lightness = lightness,
                         !.gamma = gamma] :
     brightness \in {0, 1000, 3000}, contrast \in {0, 1000, 3000},
     hue \in {-60, 0, 120, 180}, saturation \in {0, 4000},
     lightness \in {1000, 4000}, gamma \in {100, 500, 1000, 2000, 4000}}

GradingInit == PlaybackInit("grading", GradingConfigs)

GradingSpec == GradingInit /\ [][PlaybackNext]_vars

\* ---- playback of frames graded flat: with contrast 0 every cell has luma 0.5
FlatConfigs ==
  {[DefaultConfig EXCEPT !.contrast = contrast, !.mode = mode, !.inverted = inverted,
                         !.dithering = amount] :
     contrast \in {0, 1000}, mode \in {"PICO_ASCII", "WIRE", "SEISMIC", "BINARY"},
     inverted \in BOOLEAN, amount \in {0, 500}}

FlatInit == PlaybackInit("flat", FlatConfigs)

FlatSpec == FlatInit /\ [][PlaybackNext]_vars

\* ---- playback with glyphs outside the basic plane in the semantic word and
\* in the custom ramp
AstralWord == <<"A", "D83D", "DE80">>
AstralRamp ==
  << [char |-> <<"D83D", "DE00", "x">>, brightness |-> 1000, semanticValue |-> <<"a">>],
     [char |-> <<"D83D", "DE80">>, brightness |-> 500, semanticValue |-> <<"D83D", "DE80">>],
     [char |-> <<".">>, brightness |-> 0, semanticValue |-> <<>>] >>
SemanticAstral == [DefaultConfig EXCEPT !.mode = "SEMANTIC", !.semanticWord = AstralWord]
CustomAstral == [DefaultConfig EXCEPT !.customRampEnabled = TRUE,
                                      !.customRampEntries = AstralRamp,
                                      !.customRampName = "USER"]
GlyphConfigs ==
  {[base EXCEPT !.inverted = inverted] :
     base \in {SemanticAstral, [SemanticAstral EXCEPT !.semanticRamp = TRUE],
               CustomAstral,
               [CustomAstral EXCEPT !.mode = "SEMANTIC", !.semanticWord = AstralWord,
                                    !.customSemanticMapping = TRUE]},
     inverted \in BOOLEAN}

GlyphInit == PlaybackInit("glyphs", GlyphConfigs)

GlyphSpec == GlyphInit /\ [][PlaybackNext]_vars

\* ---- playback of blank, one-glyph and mixed frames on grids of one cell and
\* of nine, with and without temporal stabilization
MetricsConfigs ==
  {DefaultConfig, [DefaultConfig EXCEPT !.contrast = 0], Temporal, TemporalMatrix,
   [Temporal EXCEPT !.characterInertia = 0]}

MetricsInit == PlaybackInit("metrics", MetricsConfigs)

MetricsSpec == MetricsInit /\ [][PlaybackNext]_vars

\* ---- playback at requested sizes from below 1 to beyond the largest raster
Coarse == [DefaultConfig EXCEPT !.resolution = 128, !.pixelate = 32]
SizeConfigs ==
  {Coarse, [Coarse EXCEPT !.resolution = 64], DefaultConfig,
   [DefaultConfig EXCEPT !.resolution = 12, !.pixelate = 0]}

SizeInit == PlaybackInit("sizes", SizeConfigs)

SizeSpec == SizeInit /\ [][PlaybackNext]_vars

\* ---- updates of the configuration through the application's setter
\* the values a control, a preset or a project file may hold for a numeric
\* field: numbers at and beyond both ends of its range, and values that are
\* not finite numbers
RawNumbersOf(name) ==
  LET min == NumericRange[name][1]
      max == NumericRange[name][2]
  IN {Num(2 * min - max - 1), Num(min), Num(max), Num(2 * max - min + 1),
      NumericString(max + 1), Other("NaN"), Other("null"), Undefined}
\* and for the palette: no array, arrays without a well-formed colour, one
\* colour, a malformed entry among colours, 33 colours
RawPalettes ==
  {Other("text"), Undefined, Array(<<>>), Array(<< <<"r", "e", "d">> >>),
   Array(<<White>>), Array(<<Black, <<"#", "f", "f">>, <<" ", "#", "F", "F", "0", "0", "0", "0">> >>),
   Array([i \in 1..33 |-> IF i % 2 = 1 THEN Black ELSE White])}
\* the objects a preset or a project file may hold: empty, or every field
\* with a value of one kind
LoadedObjects ==
  {<<>>} \cup
  {[name \in NumericFields \cup {"palette"} |-> IF name = "palette" THEN palette ELSE raw] :
     raw \in {Other("NaN"), Other("null"), Num(1000000), Num(-1000000)},
     palette \in {Undefined, Array([i \in 1..33 |-> IF i % 2 = 1 THEN Black ELSE White])}}

ConfigInit ==
  /\ engines = [i \in Instances |-> NewEngine]
  /\ last = [i \in Instances |-> EmptyResult]
  /\ hist = [i \in Instances |-> NoHist]
  /\ call = NoCall
  /\ staticOut = EmptyResult
  /\ runs = NoRuns
  /\ ctl = [family |-> "config", calls |-> 0, pair |-> <<>>]
  /\ app = NoApp

\* setConfig(next): configState becomes sanitizeEngineConfig(next, prev)
setConfig(next, edit) ==
  /\ app.updates < MaxUpdates
  /\ app' = [app EXCEPT !.config = sanitizeEngineConfig(next, app.config),
                        !.updates = @ + 1, !.edit = edit]
  /\ UNCHANGED <<engines, last, hist, call, staticOut, runs, ctl>>

\* a control writes one numeric field: setConfig(prev => ({ ...prev, [name]: raw }))
EditField ==
  \E name \in NumericFields : \E raw \in RawNumbersOf(name) :
    setConfig([Spread(app.config) EXCEPT ![name] = raw],
              [field |-> name, kind |-> raw.kind, n |-> raw.n])

\* the palette editor writes the palette
EditPalette ==
  \E raw \in RawPalettes :
    setConfig([Spread(app.config) EXCEPT !.palette = raw],
              [field |-> "palette", kind |-> raw.kind, n |-> Len(raw.entries)])

\* a preset or a project file is loaded:
\* setConfig(prev => sanitizeEngineConfig({ ...prev, ...loaded }, prev))
LoadConfig ==
  \E loaded \in LoadedObjects :
    setConfig(loaded @@ Spread(app.config), [field |-> "all", kind |-> FieldOf(loaded, "gamma").kind,
                       n |-> FieldOf(loaded, "gamma").n])

ConfigNext == EditField \/ EditPalette \/ LoadConfig

ConfigSpec == ConfigInit /\ [][ConfigNext]_vars

\* ---- the live frame scheduler of the canvas component
\* the configurations of a live playback: states of the application's
\* configuration with temporal stabilization switched on and a frame rate
LiveBase ==
  [InitialConfigState EXCEPT !.temporalEnabled = TRUE, !.temporalBlend = 500,
                             !.characterInertia = 1000]
LiveConfigs ==
  {[base EXCEPT !.frameRate = rate] :
     base \in {LiveBase, [LiveBase EXCEPT !.mode = "MATRIX", !.seed = 15]},
     rate \in {1, 2, 30}}
\* the time from one animation-frame callback to the next, in ms
RefreshIntervals == {8, 600}
\* the container of the canvas, in pixels: three cells by three at resolution 12
LiveSize == <<36, 36>>

LiveInit ==
  /\ engines = [i \in Instances |-> NewEngine]
  /\ last = [i \in Instances |-> EmptyResult]
  /\ hist = [i \in Instances |-> NoHist]
  /\ call = NoCall
  /\ staticOut = EmptyResult
  /\ runs = NoRuns
  /\ ctl = [family |-> "live", calls |-> 0, pair |-> <<>>]
  /\ app \in {[NoApp EXCEPT !.config = config] : config \in LiveConfigs}

\* handleShock and the effect on the shockTrigger prop: the trigger is a
\* larger number than the last one, the start frame is cleared
TriggerShock ==
  /\ app.shockTrigger < MaxShocks
  /\ app' = [app EXCEPT !.shockTrigger = @ + 1,
                        !.lastShockTrigger = app.shockTrigger + 1,
                        !.shockStartFrame = -1]
  /\ UNCHANGED <<engines, last, hist, call, staticOut, runs, ctl>>

targetFrameRateOf(config) ==
  Max(1, IF config.frameRate = 0 THEN 30 ELSE config.frameRate)
\* Math.floor(rafTime / (1000 / targetFrameRate))
simulationFrameAt(rafTime, targetFrameRate) == (rafTime * targetFrameRate) \div 1000
\* Math.max(1, Math.round(targetFrameRate * 1.2))
shockDurationFramesOf(targetFrameRate) == Max(1, RoundDiv(targetFrameRate * 12, 10))

\* animate(rafTime): one callback of requestAnimationFrame. The brush layer
\* handed to the engine is present and unpainted, which with a source present
\* renders as no brush layer does.
animate ==
  /\ ctl.calls < MaxCalls
  /\ \E interval \in RefreshIntervals, f \in FrameInputsOf(ctl.family) :
       LET rafTime == app.rafTime + interval
           targetFrameRate == targetFrameRateOf(app.config)
           simulationFrame == simulationFrameAt(rafTime, targetFrameRate)
           shockDurationFrames == shockDurationFramesOf(targetFrameRate)
           shockStartFrame == IF app.shockStartFrame = -1 /\ app.lastShockTrigger > 0
                              THEN simulationFrame ELSE app.shockStartFrame
           elapsedFrames == simulationFrame - shockStartFrame
           over == shockStartFrame # -1 /\ elapsedFrames > shockDurationFrames
           shockProgress == IF shockStartFrame # -1 /\ ~over
                            THEN RoundDiv(elapsedFrames * Milli, shockDurationFrames)
                            ELSE -1
       IN /\ Render(1, f[1], f[2], app.config, LiveSize, simulationFrame, shockProgress)
          /\ app' = [app EXCEPT !.rafTime = rafTime,
                                !.shockStartFrame = IF over THEN -1 ELSE shockStartFrame,
                                !.lastShockTrigger = IF over THEN 0 ELSE @]
  /\ ctl' = [ctl EXCEPT !.calls = @ + 1]
  /\ UNCHANGED <<staticOut, runs>>

LiveNext == animate \/ TriggerShock

LiveSpec == LiveInit /\ [][LiveNext]_vars

\* ---- playbacks for character persistence: fixed and adaptive inertia
Steady == [Temporal EXCEPT !.adaptiveInertiaEnabled = FALSE, !.temporalBlend = 0]
Adaptive == [Temporal EXCEPT !.adaptiveInertiaEnabled = TRUE, !.characterInertia = 1000]
PersistConfigs ==
  {[base EXCEPT !.mode = mode, !.seed = IF mode = "MATRIX" THEN 15 ELSE 42] :
     base \in {[Steady EXCEPT !.characterInertia = inertia, !.temporalBlend = blend] :
                  inertia \in {0, 350, 1000}, blend \in {0, 500}}
           \cup {[Adaptive EXCEPT !.adaptiveInertiaStrength = strength,
                                  !.temporalGhostClamp = clamp, !.temporalBlend = blend] :
                   strength \in {0, 550}, clamp \in {0, 450}, blend \in {0, 500}},
     mode \in {"PICO_ASCII", "MATRIX"}}
PersistInit == PlaybackInit("persist", PersistConfigs)
PersistSpec == PersistInit /\ [][PlaybackNext]_vars

\* ---- playbacks over changing output sizes, resolutions and pixelation
RegridConfigs ==
  {[Temporal EXCEPT !.resolution = resolution, !.pixelate = pixelate] :
     resolution \in {1, 2}, pixelate \in {1, 2}}
RegridInit == PlaybackInit("regrid", RegridConfigs)
\* the next frame of the playback under another resolution and pixelation
\* factor: the application replaces the configuration between two frames
Reconfigure ==
  /\ ctl.calls < MaxCalls
  /\ \E config \in RegridConfigs \ {ctl.pair[1]} :
       ctl' = [ctl EXCEPT !.pair = <<config>>]
  /\ UNCHANGED <<engines, last, hist, call, staticOut, runs, app>>
RegridNext == PlaybackStep \/ Reconfigure
RegridSpec == RegridInit /\ [][RegridNext]_vars

\* ---- playbacks with the edge overlay, with and without temporal stabilization
EdgeConfigs ==
  {[base EXCEPT !.outlineSensitivity = sensitivity, !.mode = mode] :
     base \in {Outlined, TemporalOutlined, [TemporalOutlined EXCEPT !.characterInertia = 1000]},
     sensitivity \in {200, 990}, mode \in {"PICO_ASCII", "BINARY"}}
EdgeInit == PlaybackInit("edges", EdgeConfigs)
EdgeSpec == EdgeInit /\ [][PlaybackNext]_vars

\* ---- playbacks in matrix mode
MatrixConfigs ==
  {[base EXCEPT !.seed = seed, !.dithering = amount] :
     base \in {[DefaultConfig EXCEPT !.mode = "MATRIX"],
               [Outlined EXCEPT !.mode = "MATRIX", !.outlineSensitivity = 990],
               TemporalMatrix,
               [TemporalStiff EXCEPT !.mode = "MATRIX"]},
     seed \in {15, 42}, amount \in {0, 500}}
MatrixInit == PlaybackInit("matrix", MatrixConfigs)
MatrixSpec == MatrixInit /\ [][PlaybackNext]_vars

\* ---- two engines in lockstep: ordered dithering against dithering off
BayerPairs ==
  {<<[base EXCEPT !.dithering = amount, !.ditheringMode = "BAYER", !.colorizeDither = colorize],
     [base EXCEPT !.dithering = amount, !.ditheringMode = "NONE", !.colorizeDither = colorize]>> :
     base \in {DefaultConfig, Quantized, TemporalOutlined,
               [TemporalOutlined EXCEPT !.outlineSensitivity = 990]},
     amount \in {500, 1000}, colorize \in BOOLEAN}
BayerInit ==
  /\ engines = [i \in Instances |-> NewEngine]
  /\ last = [i \in Instances |-> EmptyResult]
  /\ hist = [i \in Instances |-> NoHist]
  /\ call = NoCall
  /\ staticOut = EmptyResult
  /\ runs = NoRuns
  /\ ctl \in [family : {"pair"}, calls : {0}, pair : BayerPairs]
  /\ app = NoApp
BayerSpec == BayerInit /\ [][PairNext]_vars

\* ---- the age of the content of the engine's reused buffers.  For every cell
\* of a buffer: 0 when the cell was written, filled or allocated during the
\* render in progress, 1 when during the frame before, 2 when earlier.  The
\* four temporal-signal buffers are ensured, filled and written together and
\* share one entry.
BufferNames ==
  {"gradedBuffer", "lumaBuffer", "edgeMagnitude", "edgeAngle", "prevLumaBuffer",
   "prevEdgeMagnitude", "prevCharGrid", "temporalSignals"}
HistoryBuffers == {"prevLumaBuffer", "prevEdgeMagnitude", "prevCharGrid"}
NoAges == [b \in BufferNames |-> <<>>]
Written(n) == [i \in 1..n |-> 0]
Older(ages) == [b \in BufferNames |-> [i \in 1..Len(ages[b]) |-> Min(2, ages[b][i] + 1)]]
\* ensureFloatBuffer: the buffer itself when the length matches, else a new one
ensureAges(current, length) == IF Len(current) = length THEN current ELSE Written(length)
\* the writes of a loop over every cell of an ensured buffer
WriteAll(current, length) == [i \in 1..length |-> 0]
\* computeEdgeData without fill(0): only the interior cells are written
computeEdgeAgesWithoutFill(current, cols, rows) ==
  [i \in 1..(cols * rows) |->
     LET x == (i - 1) % cols
         y == (i - 1) \div cols
     IN IF x >= 1 /\ x < cols - 1 /\ y >= 1 /\ y < rows - 1 THEN 0
        ELSE ensureAges(current, cols * rows)[i]]
\* computeEdgeData: ensure, fill(0), then the interior cells
computeEdgeAges(current, cols, rows) == WriteAll(ensureAges(current, cols * rows), cols * rows)

\* render, as it ensures, fills, writes and reads the buffers: the ages after
\* the frame and the cells it read whose content was left over.  A cell of a
\* history buffer read under hasTemporalHistory may be 1 frame old.
TrackBuffers(ages, config, out, shockProgress) ==
  LET n == out.cols * out.rows
      cells == 1..n
      temporalEnabled == config.temporalEnabled
      trackTemporalSignals ==
        temporalEnabled /\ (config.temporalDiagnosticsEnabled \/ config.adaptiveInertiaEnabled)
      a0 == Older(ages)
      \* resetTemporalState
      a1 == IF out.requiresTemporalReset
            THEN [a0 EXCEPT !.prevLumaBuffer = WriteAll(ensureAges(@, n), n),
                            !.prevEdgeMagnitude = WriteAll(ensureAges(@, n), n),
                            !.prevCharGrid = Written(n),
                            !.temporalSignals = WriteAll(ensureAges(@, n), n)]
            ELSE a0
      a2 == IF trackTemporalSignals
            THEN [a1 EXCEPT !.temporalSignals = WriteAll(ensureAges(@, n), n)] ELSE a1
      \* applyGrading and the luma loop
      a3 == [a2 EXCEPT !.gradedBuffer = WriteAll(ensureAges(@, n), n),
                       !.lumaBuffer = WriteAll(ensureAges(@, n), n)]
      a4 == IF config.outlineEnabled
            THEN [a3 EXCEPT !.edgeMagnitude = computeEdgeAges(@, out.cols, out.rows),
                            !.edgeAngle = computeEdgeAges(@, out.cols, out.rows)]
            ELSE a3
      reads ==
        [b \in BufferNames |->
           CASE b \in {"gradedBuffer", "lumaBuffer"} -> cells
             [] b = "prevLumaBuffer" -> IF out.hasTemporalHistory THEN cells ELSE {}
             [] b = "prevEdgeMagnitude" ->
                  IF out.hasTemporalHistory /\ config.outlineEnabled
                     /\ Len(a4.prevEdgeMagnitude) = n
                  THEN cells ELSE {}
             [] b = "prevCharGrid" ->
                  IF out.hasTemporalHistory /\ clamp01m(config.characterInertia) > 0
                     /\ ShockIntensity(shockProgress) = 0
                  THEN cells ELSE {}
             [] b = "edgeMagnitude" -> IF config.outlineEnabled THEN cells ELSE {}
             [] b = "edgeAngle" -> {i \in cells : out.isEdge[i]}
             [] OTHER ->
                  IF temporalEnabled /\ config.temporalDiagnosticsEnabled THEN cells ELSE {}]
      allowed(b) == IF b \in HistoryBuffers /\ out.hasTemporalHistory THEN 1 ELSE 0
      \* the history saved, or dropped, at the end of the frame
      a5 == IF temporalEnabled
            THEN [a4 EXCEPT !.prevLumaBuffer = WriteAll(ensureAges(@, n), n),
                            !.prevEdgeMagnitude = WriteAll(ensureAges(@, n), n),
                            !.prevCharGrid = Written(n)]
            ELSE [a4 EXCEPT !.prevLumaBuffer = <<>>, !.prevEdgeMagnitude = <<>>,
                            !.prevCharGrid = <<>>]
  IN [ages |-> a5,
      stale |-> {<<b, i>> : b \in BufferNames, i \in 1..16} \cap
                UNION {{<<b, i>> : i \in {k \in reads[b] : k > Len(a4[b]) \/ a4[b][k] > allowed(b)}} :
                         b \in BufferNames}]

\* ---- one instance rendering under changing sizes and settings, its buffers tracked
BufferConfigs ==
  {Outlined, [TemporalOutlined EXCEPT !.temporalDiagnosticsEnabled = TRUE],
   [Temporal EXCEPT !.adaptiveInertiaEnabled = FALSE]}
BufferInit ==
  /\ engines = [i \in Instances |-> NewEngine @@ [ages |-> NoAges, stale |-> {}]]
  /\ last = [i \in Instances |-> EmptyResult]
  /\ hist = [i \in Instances |-> NoHist]
  /\ call = NoCall
  /\ staticOut = EmptyResult
  /\ runs = NoRuns
  /\ ctl = [family |-> "buffers", calls |-> 0, pair |-> <<>>]
  /\ app = NoApp

\* engine.render on instance 1 with the next frame index, under any of the
\* configurations and sizes
TrackedRender(source, brush, config, size) ==
  LET frameIndex == hist[1].frameIndex + 1
      res == render(engines[1], source, brush, config, size[1], size[2], frameIndex, -1, TRUE)
      inputs == [frameIndex |-> frameIndex, config |-> config, source |-> source,
                 brush |-> brush, width |-> size[1], height |-> size[2],
                 shockProgress |-> -1]
      tracked == IF res.out.rendered
                 THEN TrackBuffers(engines[1].ages, config, res.out, -1)
                 ELSE [ages |-> engines[1].ages, stale |-> {}]
  IN /\ engines' = [engines EXCEPT ![1] = [res.eng EXCEPT !.ages = tracked.ages,
                                                          !.stale = tracked.stale]]
     /\ last' = [last EXCEPT ![1] = res.out]
     /\ hist' = IF res.out.rendered
                THEN [hist EXCEPT ![1] = [valid |-> TRUE, charGrid |-> res.out.charGrid]
                                         @@ inputs]
                ELSE hist
     /\ call' = [op |-> "render", inst |-> 1, before |-> hist[1]] @@ inputs

BufferStep ==
  /\ ctl.calls < MaxCalls
  /\ \E f \in FrameInputsOf(ctl.family), config \in BufferConfigs :
       \E size \in SizesOf(ctl.family, config) :
         TrackedRender(f[1], f[2], config, size)
  /\ ctl' = [ctl EXCEPT !.calls = @ + 1]
  /\ UNCHANGED <<staticOut, runs, app>>

BufferNext == BufferStep
BufferSpec == BufferInit /\ [][BufferNext]_vars

\* ---- one instance rendering frame after frame while the application turns
\* temporal stabilization on and off, changes the glyph mode (and with it the
\* temporal signature) and the size, and skips frames.  ctl.trail keeps, for
\* every frame rendered, whether temporal was enabled, whether the frame
\* reset the history and whether it used one.
HistoryConfigs == {Temporal, TemporalMatrix, DefaultConfig}
HistoryInit ==
  /\ engines = [i \in Instances |-> NewEngine]
  /\ last = [i \in Instances |-> EmptyResult]
  /\ hist = [i \in Instances |-> NoHist]
  /\ call = NoCall
  /\ staticOut = EmptyResult
  /\ runs = NoRuns
  /\ ctl = [family |-> "history", calls |-> 0, pair |-> <<>>, trail |-> <<>>]
  /\ app = NoApp

HistoryStep ==
  /\ ctl.calls < MaxCalls
  /\ \E f \in FrameInputsOf(ctl.family), config \in HistoryConfigs :
       \E size \in SizesOf(ctl.family, config),
          frameIndex \in {hist[1].frameIndex + 1, hist[1].frameIndex + 2} :
         Render(1, f[1], f[2], config, size, frameIndex, -1)
  /\ ctl' = [ctl EXCEPT !.calls = @ + 1,
                        !.trail = Append(@, [temporalEnabled |-> call'.config.temporalEnabled,
                                             reset |-> last'[1].requiresTemporalReset,
                                             used |-> last'[1].hasTemporalHistory])]
  /\ UNCHANGED <<staticOut, runs, app>>

HistoryNext == HistoryStep
HistorySpec == HistoryInit /\ [][HistoryNext]_vars

\* ===================================================================
\* The exports started from the UI (App.tsx)
\* ===================================================================
\* app.isExporting is the busy flag; while it is set a full-window overlay
\* covers the controls, so no export starts.  An export is an async callback
\* run from a timer: app.pc is the await it is suspended at ("idle" when no
\* callback is pending), app.item the loop index, app.items the length of
\* its loop (GIF frames of a video source, glyph modes of the sheet).
MaxExports == 2
MaxItems == 3
NoExport == [isExporting |-> FALSE, kind |-> "none", pc |-> "idle", item |-> 0, items |-> 0,
             exports |-> 0, ended |-> "none"]
ExportInit ==
  /\ engines = [i \in Instances |-> NewEngine]
  /\ last = [i \in Instances |-> EmptyResult]
  /\ hist = [i \in Instances |-> NoHist]
  /\ call = NoCall
  /\ staticOut = EmptyResult
  /\ runs = NoRuns
  /\ ctl = [family |-> "export", calls |-> 0, pair |-> <<>>]
  /\ app = NoExport @@ NoApp

\* a handler called from the UI: nothing without a source or a canvas
\* handle, else the busy flag is set and the callback scheduled
CanStart == ~app.isExporting /\ app.pc = "idle" /\ app.exports < MaxExports
Started(kind, ready) ==
  IF ready
  THEN [app EXCEPT !.isExporting = TRUE, !.kind = kind, !.pc = "scheduled",
                   !.item = 0, !.items = 0, !.exports = @ + 1, !.ended = "none"]
  ELSE [app EXCEPT !.exports = @ + 1, !.ended = "not started"]
handleExportHD ==
  /\ CanStart
  /\ \E ready \in BOOLEAN : app' = Started("HD", ready)
  /\ UNCHANGED <<engines, last, hist, call, staticOut, runs, ctl>>
handleExportGIF ==
  /\ CanStart
  /\ \E ready \in BOOLEAN : app' = Started("GIF", ready)
  /\ UNCHANGED <<engines, last, hist, call, staticOut, runs, ctl>>
handleContactSheet ==
  /\ CanStart
  /\ \E ready \in BOOLEAN : app' = Started("SHEET", ready)
  /\ UNCHANGED <<engines, last, hist, call, staticOut, runs, ctl>>

\* the callback arrives at another await
Await(pc) == [app EXCEPT !.pc = pc]
\* a finally block, or a catch block, with setIsExporting(false)
Cleared(how) == [app EXCEPT !.isExporting = FALSE, !.pc = "idle", !.ended = how]
\* the callback returns and no block clears the flag
Returned(how) == [app EXCEPT !.pc = "idle", !.ended = how]

\* the callback of handleExportHD, from one await to the next; try, catch,
\* finally { setIsExporting(false) }
ExportHDStep ==
  /\ app.kind = "HD"
  /\ \/ /\ app.pc = "scheduled"
        /\ app' = Await("dimensions")
     \/ /\ app.pc = "dimensions"
        /\ \E known \in BOOLEAN :
             app' = IF known THEN Await("render") ELSE Cleared("early return")
     \/ /\ app.pc = "render"
        /\ \E outcome \in {"blob", "resize", "null", "throws"} :
             app' = CASE outcome = "blob" -> Cleared("success")
                      [] outcome = "resize" -> Await("image")
                      [] outcome = "null" -> Cleared("nothing rendered")
                      [] OTHER -> Cleared("error")
     \/ /\ app.pc = "image"
        /\ \E decoded \in BOOLEAN :
             app' = IF decoded THEN Await("toBlob") ELSE Cleared("error")
     \/ /\ app.pc = "toBlob"
        /\ app' = Cleared("success")
  /\ UNCHANGED <<engines, last, hist, call, staticOut, runs, ctl>>

\* the callback of handleExportGIF; try, catch, finally { setIsExporting(false) }
ExportGIFStep ==
  /\ app.kind = "GIF"
  /\ \/ /\ app.pc = "scheduled"
        /\ app' = Await("dimensions")
     \/ /\ app.pc = "dimensions"
        /\ \E known \in BOOLEAN, context \in BOOLEAN, textmode \in BOOLEAN,
              frames \in 0..MaxItems :
             app' = CASE ~known -> Cleared("early return")
                      [] ~context -> Cleared("error")
                      [] textmode -> Await("encode textmode")
                      [] frames > 0 -> [app EXCEPT !.pc = "seek", !.item = 0, !.items = frames]
                      [] OTHER -> Await("encode")
     \/ /\ app.pc = "seek"
        /\ \E sought \in BOOLEAN :
             app' = CASE ~sought -> Cleared("error")
                      [] app.item + 1 < app.items -> [app EXCEPT !.item = @ + 1]
                      [] OTHER -> Await("seek back")
     \/ /\ app.pc = "seek back"
        /\ \E sought \in BOOLEAN :
             app' = IF sought THEN Await("encode") ELSE Cleared("error")
     \/ /\ app.pc = "encode textmode"
        /\ \E finished \in BOOLEAN :
             app' = IF finished THEN Cleared("success") ELSE Cleared("error")
     \/ /\ app.pc = "encode"
        /\ \E finished \in BOOLEAN :
             app' = IF finished THEN Cleared("success") ELSE Cleared("timed out")
  /\ UNCHANGED <<engines, last, hist, call, staticOut, runs, ctl>>

\* the callback of handleContactSheet; try, catch { setIsExporting(false) },
\* and setIsExporting(false) in the callback of toBlob
ContactSheetStep ==
  /\ app.kind = "SHEET"
  /\ \/ /\ app.pc = "scheduled"
        /\ \E context \in BOOLEAN, modes \in 1..MaxItems :
             app' = IF context
                    THEN [app EXCEPT !.pc = "render", !.item = 0, !.items = modes]
                    ELSE Returned("early return")
     \/ /\ app.pc = "render"
        /\ \E outcome \in {"blob", "null", "throws"} :
             app' = CASE outcome = "blob" -> Await("image")
                      [] outcome = "throws" -> Cleared("error")
                      [] app.item + 1 < app.items -> [app EXCEPT !.item = @ + 1]
                      [] OTHER -> Await("toBlob")
     \/ /\ app.pc = "image"
        /\ app' = IF app.item + 1 < app.items
                  THEN [app EXCEPT !.pc = "render", !.item = @ + 1]
                  ELSE Await("toBlob")
     \/ /\ app.pc = "toBlob"
        /\ app' = Cleared("success")
  /\ UNCHANGED <<engines, last, hist, call, staticOut, runs, ctl>>

ExportNext ==
  \/ handleExportHD
  \/ handleExportGIF
  \/ handleContactSheet
  \/ ExportHDStep
  \/ ExportGIFStep
  \/ ContactSheetStep
\* a scheduled callback runs and every promise it awaits settles: the timer,
\* the metadata wait, the seek and the encoder have timeouts, the static
\* render, the image decode and toBlob call back
ExportSpec ==
  /\ ExportInit /\ [][ExportNext]_vars
  /\ WF_vars(ExportHDStep) /\ WF_vars(ExportGIFStep) /\ WF_vars(ContactSheetStep)

TypeOK ==
  /\ call.op \in {"none", "render", "static", "pair", "script"}
  /\ ctl.calls \in 0..MaxCalls
  /\ app.updates \in 0..MaxUpdates

\* ===================================================================
\* Properties
\* ===================================================================
\* the frame the latest render call produced on the instance it was made on
Frame == last[call.inst]
Rendered == call.op = "render" /\ Frame.rendered
Cells(out) == 1..Len(out.charGrid)

\* C1: when temporal stabilization is enabled and a frame is rendered at an
\* index that is not the previously rendered index plus one, the history is
\* reset: no cell keeps its previous glyph, the lock ratio is 0, and the
\* diagnostics overlay, when it is drawn, reports that there is no history.
C1_Discontinuity ==
  /\ Rendered
  /\ call.config.temporalEnabled
  /\ call.before.valid
  /\ call.frameIndex # call.before.frameIndex + 1
C1_DiscontinuityResetsHistory ==
  C1_Discontinuity =>
    /\ Frame.requiresTemporalReset
    /\ ~Frame.hasTemporalHistory
    /\ \A c \in Cells(Frame) : ~Frame.locked[c]
    /\ Frame.temporalLockCount = 0
    /\ Frame.metrics.temporal.lockRatio = 0
    /\ (call.config.temporalDiagnosticsEnabled => Frame.diagnostics = "WARMUP")
\* a frame rendered two indices after a frame of the same configuration and
\* size, with the overlay drawn
C1_Witness ==
  /\ C1_Discontinuity
  /\ call.frameIndex = call.before.frameIndex + 2
  /\ call.before.config = call.config
  /\ call.before.config.temporalEnabled
  /\ call.config.temporalDiagnosticsEnabled
  /\ Frame.diagnostics = "WARMUP"

\* the latest call rendered the frame index after the one rendered before it
\* on the same instance, on a grid of the same size
Consecutive ==
  /\ Rendered
  /\ call.before.valid
  /\ call.frameIndex = call.before.frameIndex + 1
  /\ call.width = call.before.width /\ call.height = call.before.height
  /\ Len(Frame.charGrid) = Len(call.before.charGrid)
HistoryDiscarded ==
  /\ ~Frame.hasTemporalHistory
  /\ \A c \in Cells(Frame) : ~Frame.locked[c]
  /\ (call.config.temporalEnabled => Frame.requiresTemporalReset)

\* the configuration fields that change glyphs or luma without being part of
\* the temporal signature: those of the temporal stabilizer
StabilizerFields(config) ==
  << config.temporalEnabled, config.temporalBlend, config.characterInertia,
     config.edgeTemporalStability, config.adaptiveInertiaEnabled,
     config.adaptiveInertiaStrength, config.temporalGhostClamp >>

C3_Scenario ==
  /\ Consecutive
  /\ call.frameIndex = 1
  /\ call.config = call.before.config
  /\ call.source = call.before.source /\ call.brush = call.before.brush
  /\ call.config.temporalEnabled
  /\ call.config.temporalBlend = 500 /\ call.config.characterInertia = 500
  /\ call.shockProgress < 0 /\ call.before.shockProgress < 0
\* some cell selects at frame 1 a glyph other than the one it showed at frame 0
C3_SomeGlyphChanges ==
  \E c \in Cells(Frame) : Frame.naive[c] # call.before.charGrid[c]

\* C3, as stated: with temporal blend 0.5, character inertia 0.5, no shock and
\* identical luma at frames 0 and 1, the lock ratio reported at frame 1 is 1.0.
C3_LockRatioIsOne ==
  C3_Scenario => Frame.metrics.temporal.lockRatio = Milli
\* C3, amended: in that scenario, with no distortion and dithering amount 0,
\* the lock ratio at frame 1 is 1.0 when some cell selects a glyph other than
\* its frame-0 glyph (every such cell is locked), and 0 when no cell does.
C3_LockRatioOverDecisions ==
  (C3_Scenario /\ call.config.distortion = "NONE" /\ call.config.dithering = 0)
  => /\ Frame.metrics.temporal.lockRatio = IF C3_SomeGlyphChanges THEN Milli ELSE 0
     /\ \A c \in Cells(Frame) :
          Frame.naive[c] # call.before.charGrid[c]
          => Frame.locked[c] /\ Frame.charGrid[c] = call.before.charGrid[c]
\* MATRIX mode, whose glyphs depend on the frame index: a cell changes its
\* selection between frames 0 and 1 and is locked
C3_Witness ==
  /\ C3_Scenario
  /\ call.config.mode = "MATRIX"
  /\ C3_SomeGlyphChanges
  /\ Frame.temporalDecisionCount > 0
  /\ Frame.metrics.temporal.lockRatio = Milli

\* C5: a static render runs on an engine constructed for the call, at frame
\* index 0 with an empty history: its frame is the one a new engine renders
\* from the same inputs, whatever history the calling instance holds, and the
\* calling instance's fields are left as they were.
C5_StaticRenderIsIndependent ==
  [][call'.op = "static"
     => /\ engines' = engines
        /\ last' = last /\ hist' = hist
        /\ staticOut' = render(NewEngine, call'.source, call'.brush, call'.config,
                               call'.width, call'.height, 0, -1, FALSE).out
        /\ staticOut'.frameIndex = 0
        /\ ~staticOut'.hasTemporalHistory
        /\ \A c \in Cells(staticOut') : ~staticOut'.locked[c]]_vars
\* a static render with a stabilized configuration, called on an instance that
\* holds the history of frame 1 of that configuration
C5_Witness ==
  /\ call.op = "static"
  /\ call.config.temporalEnabled
  /\ staticOut.rendered
  /\ engines[call.inst].temporalHistoryValid
  /\ engines[call.inst].lastTemporalFrameIndex = 1
  /\ engines[call.inst].appliedTemporalSignature = getTemporalSignature(call.config)

\* C4: a script (one configuration, fixed source frames, a strictly increasing
\* sequence of frame indices) run a second time, on the same instance or on a
\* new one, produces at every frame the glyph grid, the fills, the glyph counts
\* and the metrics its first run produced.
C4_RerunReproducesFrames ==
  (runs.run = 2 /\ runs.pos > 0)
  => /\ last[runs.inst].charGrid = runs.outs[runs.pos].charGrid
     /\ last[runs.inst].metrics = runs.outs[runs.pos].metrics
     /\ last[runs.inst].fills = runs.outs[runs.pos].fills
     /\ last[runs.inst].charCounts = runs.outs[runs.pos].charCounts
\* the second run on the same instance has rendered its last frame, a frame
\* that uses the history of the frame before it
C4_Witness ==
  /\ runs.run = 2 /\ runs.inst = 1
  /\ runs.pos = Len(runs.script.indices) /\ runs.pos >= 2
  /\ runs.script.sources[1] # runs.script.sources[2]
  /\ last[1].hasTemporalHistory
  /\ last[1].metrics.temporal.defined

\* C6: a render call on one instance reads and writes that instance's fields
\* only: its frame and its fields afterwards are those of render applied to its
\* own fields, and the fields, the latest frame and the history of the other
\* instance are left as they were.
C6_InstancesAreIndependent ==
  [][call'.op = "render"
     => LET i == call'.inst
            res == render(engines[i], call'.source, call'.brush, call'.config,
                          call'.width, call'.height, call'.frameIndex,
                          call'.shockProgress, TRUE)
        IN /\ engines'[i] = res.eng
           /\ last'[i] = res.out
           /\ \A j \in Instances \ {i} :
                engines'[j] = engines[j] /\ last'[j] = last[j] /\ hist'[j] = hist[j]]_vars
\* instance 2 renders a frame with the history of its own previous frame, after
\* instance 1 has rendered a frame of another source
C6_Witness ==
  /\ Rendered /\ call.inst = 2
  /\ Frame.hasTemporalHistory
  /\ hist[1].valid /\ engines[1].temporalHistoryValid
  /\ hist[1].source # hist[2].source
  /\ engines[1].prevLumaBuffer # engines[2].prevLumaBuffer

\* the hex strings of the configured palette
PaletteEntries(config) == {config.palette[i] : i \in 1..Len(config.palette)}
\* the cells of the frame whose glyph is drawn
Drawn(out) == {c \in Cells(out) : out.charGrid[c] # " "}
C7_Quantized ==
  /\ Rendered
  /\ call.config.colorMode = "QUANTIZED"
  /\ Len(call.config.palette) > 0

\* C7, as stated: in quantized colour mode the fill of every drawn glyph cell
\* is one of the palette's hex strings.
C7_EveryFillInPalette ==
  C7_Quantized
  => \A c \in Drawn(Frame) : Frame.fills[c] \in PaletteEntries(call.config)
\* C7, amended: in quantized colour mode with a non-empty palette the fill of
\* every drawn cell that is not an edge is one of the palette's hex strings, and
\* the fill of every drawn edge cell is the configured outline colour.
C7_NonEdgeFillInPalette ==
  C7_Quantized
  => \A c \in Drawn(Frame) :
       IF Frame.isEdge[c] THEN Frame.fills[c] = call.config.outlineColor
       ELSE Frame.fills[c] \in PaletteEntries(call.config)
\* a quantized frame with outlines: an edge cell filled with an outline colour
\* that is not in the palette, next to cells filled with two palette colours
C7_Witness ==
  /\ C7_Quantized
  /\ Len(call.config.palette) = 4
  /\ \E c \in Drawn(Frame) :
       Frame.isEdge[c] /\ Frame.fills[c] \notin PaletteEntries(call.config)
  /\ \E c, d \in Drawn(Frame) :
       /\ ~Frame.isEdge[c] /\ ~Frame.isEdge[d]
       /\ Frame.fills[c] # Frame.fills[d]

\* a custom ramp is enabled and has an entry at brightness 0 and one at 1
RampEntryAt(config, brightness) ==
  LET at == {i \in 1..Len(config.customRampEntries) :
               /\ config.customRampEntries[i].brightness = brightness
               /\ Len(config.customRampEntries[i].char) > 0}
  IN config.customRampEntries[CHOOSE i \in at : \A j \in at : i <= j]
C8_RampWithExtremes ==
  /\ Rendered
  /\ call.config.customRampEnabled
  /\ \E i \in 1..Len(call.config.customRampEntries) :
       /\ call.config.customRampEntries[i].brightness = 0
       /\ Len(call.config.customRampEntries[i].char) > 0
  /\ \E i \in 1..Len(call.config.customRampEntries) :
       /\ call.config.customRampEntries[i].brightness = Milli
       /\ Len(call.config.customRampEntries[i].char) > 0
\* the glyph of the entry a cell of luma 0 or 1 is to show
C8_Expected(config, luminance) ==
  firstGrapheme(RampEntryAt(config, IF (luminance = 0) = config.inverted
                                    THEN Milli ELSE 0).char)
\* the cells whose luma is exactly 0 or exactly 1
C8_Extremes(out) == {c \in Cells(out) : out.luminance[c] \in {0, Unit}}

\* C8, as stated: with such a ramp every cell of luma exactly 0 is rendered with
\* the brightness-0 entry's glyph and every cell of luma exactly 1 with the
\* brightness-1 entry's glyph, the two swapped under inversion.
C8_ExtremesRendered ==
  C8_RampWithExtremes
  => \A c \in C8_Extremes(Frame) :
       Frame.charGrid[c] = C8_Expected(call.config, Frame.luminance[c])
\* C8, amended: that holds in every mode that selects from the custom ramp (all
\* but MATRIX, and SEMANTIC while semantic mapping is on), for the cells that
\* are neither edges nor locked to their previous glyph.
C8_ExtremesSelected ==
  (/\ C8_RampWithExtremes
   /\ call.config.mode # "MATRIX"
   /\ ~(call.config.mode = "SEMANTIC" /\ call.config.customSemanticMapping))
  => \A c \in C8_Extremes(Frame) :
       (~Frame.isEdge[c] /\ ~Frame.locked[c])
       => Frame.charGrid[c] = C8_Expected(call.config, Frame.luminance[c])
\* an inverted custom ramp given in unsorted order, on a frame with cells of
\* luma 0 and cells of luma 1: the former show "#", the latter "."
C8_Witness ==
  /\ C8_RampWithExtremes
  /\ call.config.inverted
  /\ call.config.mode # "MATRIX"
  /\ \E c, d \in Cells(Frame) :
       /\ Frame.luminance[c] = 0 /\ Frame.charGrid[c] = "#"
       /\ Frame.luminance[d] = Unit /\ Frame.charGrid[d] = "."

\* the two engines of a pair have rendered the same frame
PairRendered == call.op = "pair" /\ last[1].rendered /\ last[2].rendered
\* the configurations of the pair differ in the outline sensitivity only, and
\* engine 2 has the higher one
C9_Pair ==
  /\ PairRendered
  /\ ctl.pair[1].outlineSensitivity < ctl.pair[2].outlineSensitivity
  /\ ctl.pair[2] = [ctl.pair[1] EXCEPT !.outlineSensitivity = ctl.pair[2].outlineSensitivity]

\* C9: for one frame and one configuration but for the outline sensitivity,
\* every cell that is an edge at the lower sensitivity is an edge at the higher
\* one, so the number of edge cells does not decrease.
C9_EdgesMonotone ==
  C9_Pair
  => /\ \A c \in Cells(last[1]) : last[1].isEdge[c] => last[2].isEdge[c]
     /\ Cardinality({c \in Cells(last[1]) : last[1].isEdge[c]})
          <= Cardinality({c \in Cells(last[2]) : last[2].isEdge[c]})
\* outlines enabled on both engines: a cell that is an edge at the higher
\* sensitivity only
C9_Witness ==
  /\ C9_Pair
  /\ ctl.pair[1].outlineEnabled
  /\ ctl.pair[1].outlineSensitivity > 0
  /\ \E c \in Cells(last[1]) : ~last[1].isEdge[c] /\ last[2].isEdge[c]

\* engine 1 dithers with amount 0, engine 2 has dithering off
C10_Pair ==
  /\ PairRendered
  /\ ctl.pair[1].dithering = 0
  /\ ctl.pair[1].ditheringMode \in {"BAYER", "FLOYD"}
  /\ ctl.pair[2] = [ctl.pair[1] EXCEPT !.ditheringMode = "NONE"]

\* C10: with dithering amount 0, under either algorithm and either colorize
\* setting, the graded RGB buffer and the luma buffer after a render are those
\* of the same render with dithering off.
C10_ZeroDitherLeavesBuffers ==
  C10_Pair
  => /\ engines[1].gradedBuffer = engines[2].gradedBuffer
     /\ engines[1].lumaBuffer = engines[2].lumaBuffer
\* error diffusion over luma with amount 0, on a frame whose luma is not a
\* multiple of 1/8 everywhere
C10_Witness ==
  /\ C10_Pair
  /\ ctl.pair[1].ditheringMode = "FLOYD" /\ ~ctl.pair[1].colorizeDither
  /\ \E c \in 1..Len(engines[1].lumaBuffer) :
       (engines[1].lumaBuffer[c] * 8) % Unit # 0

\* C11: after every render, every value of the luma buffer, and of the luma
\* kept as previous-frame history, lies in [0,1].
C11_LumaInUnitRange ==
  \A i \in Instances :
    /\ \A k \in 1..Len(engines[i].lumaBuffer) : engines[i].lumaBuffer[k] \in 0..Unit
    /\ \A k \in 1..Len(engines[i].prevLumaBuffer) :
         engines[i].prevLumaBuffer[k] \in 0..Unit

\* C12: every channel that colour grading writes to the graded buffer lies in
\* [0,1], whatever the grading parameters within their ranges.
C12_GradedInUnitRange ==
  Rendered =>
    \A k \in 1..Len(engines[call.inst].gradedBuffer) :
      LET c == engines[call.inst].gradedBuffer[k]
      IN c.r \in 0..Unit /\ c.g \in 0..Unit /\ c.b \in 0..Unit

\* a frame graded at ends of the ranges (gamma 0.1, saturation 4, contrast 3)
\* in which channels are held at 0 and at 1 and another lies strictly between
C12_Witness ==
  /\ Rendered
  /\ call.config.gamma = 100 /\ call.config.saturation = 4000
  /\ call.config.contrast = 3000 /\ call.config.hue = -60
  /\ LET graded == engines[call.inst].gradedBuffer
     IN /\ \E k \in 1..Len(graded) : graded[k].r = 0
        /\ \E k \in 1..Len(graded) : graded[k].r = Unit
        /\ \E k \in 1..Len(graded) : graded[k].b \in 1..(Unit - 1)

\* the scenario of C13: a frame whose cells all have luma 0.5, rendered with a
\* built-in ramp of ten glyphs, not inverted, with outline, temporal
\* stabilization, dithering and distortion off
C13_Scenario ==
  /\ Rendered
  /\ call.config.mode \notin {"SEMANTIC", "MATRIX", "ANSI_BLOCK"}
  /\ ~call.config.customRampEnabled
  /\ Len(getRamp(call.config.mode)) = 10
  /\ ~call.config.inverted
  /\ ~call.config.outlineEnabled /\ ~call.config.temporalEnabled
  /\ call.config.dithering = 0 /\ call.config.distortion = "NONE"
  /\ call.shockProgress < 0
  /\ \A c \in Cells(Frame) : engines[call.inst].lumaBuffer[c] = Unit \div 2

\* C13: in that scenario every cell renders the ramp glyph at index
\* floor(0.5 x 9) = 4.
C13_FlatFrameOneGlyph ==
  C13_Scenario =>
    \A c \in Cells(Frame) : Frame.charGrid[c] = getRamp(call.config.mode)[4 + 1]

\* the scenario with the standard ramp, from a source that is not flat itself
C13_Witness ==
  /\ C13_Scenario
  /\ call.source = "gradient"
  /\ call.config.mode = "PICO_ASCII"
  /\ Len(Frame.charGrid) = 9
  /\ \A c \in Cells(Frame) : Frame.charGrid[c] = "="

\* C14: every glyph selected from a ramp or a word is emitted whole: no cell
\* shows one half of a glyph made of two code units.
C14_GlyphsEmittedWhole ==
  Rendered =>
    \A c \in Cells(Frame) : Frame.charGrid[c] \notin (HighSurrogates \cup LowSurrogates)

\* a render call given neither a source nor an overlay
C15_EmptyCall == call.op = "render" /\ call.source = NoSource /\ ~call.brush

\* C15: such a call returns an empty glyph-count map and metrics with average
\* luminance 0, density 0 and entropy 0.
C15_EmptyCallEmptyResult ==
  C15_EmptyCall =>
    /\ DOMAIN Frame.charCounts = {}
    /\ Frame.metrics.averageLuminance = 0
    /\ Frame.metrics.density = 0
    /\ Frame.metrics.entropy = 0

\* such a call on an engine that has rendered a frame before, under a
\* configuration that draws a glyph on every cell of a black frame
C15_Witness ==
  /\ C15_EmptyCall
  /\ call.before.valid
  /\ call.config.inverted /\ call.config.mode = "PICO_ASCII"
  /\ Frame = EmptyResult

\* the cells of a frame on which a glyph is drawn
C16_Drawn(out) == {c \in Cells(out) : out.charGrid[c] # " "}

C17_ConfigInRange ==
  LET config == app.config
  IN /\ config.resolution \in 1..128
     /\ config.brightness \in 0..(3 * Milli) /\ config.contrast \in 0..(3 * Milli)
     /\ config.hue \in -180..180
     /\ config.saturation \in 0..(4 * Milli) /\ config.lightness \in 0..(4 * Milli)
     /\ config.gamma \in 100..(4 * Milli)
     /\ config.dithering \in 0..Milli
     /\ config.outlineSensitivity \in 0..990
     /\ config.temporalBlend \in 0..950
     /\ config.characterInertia \in 0..Milli
     /\ config.distortionStrength \in 0..(10 * Milli)
     /\ Len(config.palette) \in 1..32

\* a gamma above its range has just been written and is held at 4, after a
\* palette of 33 colours was written and cut to 32
C17_Witness ==
  /\ app.updates >= 2
  /\ app.edit.field = "gamma" /\ app.edit.kind = "number" /\ app.edit.n > 4 * Milli
  /\ app.config.gamma = 4 * Milli
  /\ Len(app.config.palette) = 32

\* C19: the index the live scheduler passes to each render call is greater
\* than the index it passed to the previous render call on the instance.
C19_FrameIndexIncreases ==
  (ctl.family = "live" /\ call.op = "render" /\ call.before.valid)
  => call.frameIndex > call.before.frameIndex

\* C20: while the scheduler reports the shock as active (it passes a shock
\* progress, not the sentinel), no cell keeps its previous glyph and the
\* frame's lock count is 0.
C20_ShockDisablesPersistence ==
  (ctl.family = "live" /\ call.op = "render" /\ call.shockProgress >= 0 /\ Frame.rendered)
  => /\ Frame.temporalLockCount = 0
     /\ \A c \in Cells(Frame) : ~Frame.locked[c]

\* the frame was rendered with valid history and no shock
WithHistory == call.op = "render" /\ Frame.rendered /\ Frame.hasTemporalHistory /\ call.shockProgress < 0
AdaptiveOn == call.config.temporalEnabled /\ call.config.adaptiveInertiaEnabled
Changed(c) == Frame.naive[c] # call.before.charGrid[c]
Kept(c) == Frame.locked[c] /\ Frame.charGrid[c] = call.before.charGrid[c]
Switched(c) == ~Frame.locked[c] /\ Frame.charGrid[c] = Frame.naive[c]

\* C21: with valid history, no shock and adaptive inertia off, a cell whose
\* naive glyph differs from its previous glyph keeps the previous glyph and is
\* locked exactly when its luma delta is below 0.02 + inertia x 0.25, for
\* every inertia in [0,1].
C21_LockedBelowBaseThreshold ==
  (WithHistory /\ ~AdaptiveOn)
  => \A c \in Cells(Frame) :
       Changed(c) =>
         IF Frame.lumaDelta[c] * 4 * Milli < (80 + call.config.characterInertia) * Unit
         THEN Kept(c) ELSE Switched(c)

\* C22: with adaptive inertia enabled, a cell whose motion score exceeds
\* 0.2 + ghostClamp x 0.55 is never locked to its previous glyph.
C22_GhostClampForbidsLock ==
  (WithHistory /\ AdaptiveOn)
  => \A c \in Cells(Frame) :
       Frame.motionScore[c] * 100 * Milli > (20 * Milli + call.config.temporalGhostClamp * 55) * Unit
       => Switched(c)

\* a cell whose glyph changed, with motion above the cutoff and a luma delta
\* below its inertia threshold of 0.27, drew the new glyph
C22_Witness ==
  /\ WithHistory /\ AdaptiveOn
  /\ call.config.adaptiveInertiaStrength = 0 /\ call.config.characterInertia = Milli
  /\ \E c \in Cells(Frame) :
       /\ Changed(c) /\ Switched(c)
       /\ Frame.motionScore[c] * 100 * Milli > (20 * Milli + call.config.temporalGhostClamp * 55) * Unit
       /\ Frame.lumaDelta[c] * 100 < 27 * Unit

\* the grid of a frame rendered from the given inputs
ColsOf(inputs) == Max(1, Max(1, ClampDimension(inputs.width) \div Max(1, inputs.config.pixelate)) \div Max(1, inputs.config.resolution))
RowsOf(inputs) == Max(1, Max(1, ClampDimension(inputs.height) \div Max(1, inputs.config.pixelate)) \div Max(1, inputs.config.resolution))

\* C23: when the grid's column count or row count differs from that of the
\* previous render on the instance, the render uses no temporal history.
C23_RegridUsesNoHistory ==
  (call.op = "render" /\ Frame.rendered /\ call.before.valid
   /\ (ColsOf(call.before) # Frame.cols \/ RowsOf(call.before) # Frame.rows))
  => /\ ~Frame.hasTemporalHistory
     /\ Frame.temporalLockCount = 0

DirectionalGlyphs == {"|", "/", "-", "\\"}

\* C24 as stated: every cell classified as an edge is rendered with one of
\* the four directional glyphs.
C24_EdgeCellsDrawnDirectional ==
  (call.op = "render" /\ Frame.rendered)
  => \A c \in Cells(Frame) : Frame.isEdge[c] => Frame.charGrid[c] \in DirectionalGlyphs

\* C24, amended: every cell classified as an edge selects the directional
\* glyph of its gradient angle, and is rendered with it unless character
\* persistence locks the cell to the glyph it showed in the previous frame.
C24_EdgeCellsSelectDirectional ==
  (call.op = "render" /\ Frame.rendered)
  => \A c \in Cells(Frame) :
       Frame.isEdge[c]
       => /\ Frame.naive[c] \in DirectionalGlyphs
          /\ Frame.naive[c] = engines[call.inst].edgeAngle[c]
          /\ IF Frame.locked[c]
             THEN Frame.hasTemporalHistory /\ Frame.charGrid[c] = call.before.charGrid[c]
             ELSE Frame.charGrid[c] = Frame.naive[c]

\* an edge cell whose directional glyph gave way to the glyph of the previous
\* frame, which is not directional
C24_Witness ==
  /\ call.op = "render" /\ Frame.rendered /\ call.before.valid
  /\ \E c \in Cells(Frame) :
       /\ Frame.isEdge[c] /\ Frame.locked[c]
       /\ Frame.naive[c] \in DirectionalGlyphs
       /\ Frame.charGrid[c] = call.before.charGrid[c]
       /\ Frame.charGrid[c] \notin DirectionalGlyphs

InMatrixMode == call.op = "render" /\ Frame.rendered /\ call.config.mode = "MATRIX"
BelowFloor(c) == 10 * Frame.luminance[c] < Unit

\* C25 as stated: in matrix mode every cell whose luminance is below 0.1 is
\* rendered blank.
C25_BelowFloorDrawnBlank ==
  InMatrixMode => \A c \in Cells(Frame) : BelowFloor(c) => Frame.charGrid[c] = " "

\* C25, amended: in matrix mode every cell whose luminance is below 0.1 and
\* which the edge detector does not claim selects the blank, and is rendered
\* blank unless character persistence locks it to its previous glyph.
C25_BelowFloorSelectsBlank ==
  InMatrixMode
  => \A c \in Cells(Frame) :
       (BelowFloor(c) /\ ~Frame.isEdge[c])
       => /\ Frame.naive[c] = " "
          /\ (~Frame.locked[c] => Frame.charGrid[c] = " ")

\* a frame with a cell below the floor drawn blank beside a glyph, and a cell
\* below the floor locked to the glyph of the previous frame
C25_Witness ==
  /\ InMatrixMode /\ call.before.valid
  /\ \E c \in Cells(Frame) :
       /\ BelowFloor(c) /\ ~Frame.isEdge[c] /\ Frame.locked[c]
       /\ Frame.naive[c] = " " /\ Frame.charGrid[c] # " "
  /\ \E c \in Cells(Frame) : BelowFloor(c) /\ ~Frame.locked[c] /\ Frame.charGrid[c] = " "
  /\ \E c \in Cells(Frame) : ~BelowFloor(c) /\ Frame.naive[c] # " "

\* engine 1 dithers with the ordered matrix, engine 2 has dithering off
C26_Pair ==
  /\ PairRendered
  /\ ctl.pair[1].ditheringMode = "BAYER" /\ ctl.pair[1].dithering > 0
  /\ ctl.pair[2] = [ctl.pair[1] EXCEPT !.ditheringMode = "NONE"]

\* C26: ordered dithering never modifies the stored buffers: the graded
\* buffer, the luma buffer the edges are detected on, the edges found, the
\* average luminance and the luma and edge magnitude saved as history are
\* those of the same render with dithering off.
C26_BayerLeavesBuffers ==
  C26_Pair
  => /\ engines[1].gradedBuffer = engines[2].gradedBuffer
     /\ engines[1].lumaBuffer = engines[2].lumaBuffer
     /\ engines[1].edgeMagnitude = engines[2].edgeMagnitude
     /\ engines[1].edgeAngle = engines[2].edgeAngle
     /\ last[1].metrics.averageLuminance = last[2].metrics.averageLuminance
     /\ engines[1].prevLumaBuffer = engines[2].prevLumaBuffer
     /\ engines[1].prevEdgeMagnitude = engines[2].prevEdgeMagnitude

\* a frame rendered with history on which ordered dithering changed a glyph,
\* with an edge found
C26_Witness ==
  /\ C26_Pair
  /\ last[1].hasTemporalHistory /\ last[2].hasTemporalHistory
  /\ last[1].charGrid # last[2].charGrid
  /\ last[1].luminance # last[2].luminance
  /\ \E c \in Cells(last[1]) : last[1].isEdge[c]
  /\ Len(engines[1].prevLumaBuffer) = Len(last[1].charGrid)

\* C27: no render reads a cell of a reused buffer whose content is left over
\* from an earlier frame, unless the cell was written or zero-filled earlier
\* in the render or belongs to the validated history of the frame before.
C27_NoStaleRead == engines[1].stale = {}

\* a frame that used history, after a frame of another grid size, of a
\* temporal configuration with the outline; every buffer it read held cells
\* and the history it read was one frame old
C27_Witness ==
  /\ call.op = "render" /\ Frame.rendered /\ Frame.hasTemporalHistory
  /\ ctl.calls >= 3
  /\ call.config.outlineEnabled /\ call.config.temporalDiagnosticsEnabled
  /\ \A b \in BufferNames : Len(engines[1].ages[b]) = Len(Frame.charGrid)
  /\ \A b \in BufferNames : \A i \in Cells(Frame) : engines[1].ages[b][i] = 0
  /\ engines[1].stale = {}

\* the cells of the frame before the call
CellCountBefore == Len(call.before.charGrid)
TemporalRender == call.op = "render" /\ Frame.rendered /\ call.config.temporalEnabled

\* C28: after every render with temporal enabled on non-empty input, a render
\* that reset the history included, the history is valid and records the
\* frame's index, cell count and signature; and the temporal render with the
\* next index, the same signature and the same cell count uses the history.
C28_ResetCostsOneFrame ==
  TemporalRender =>
    /\ engines[call.inst].temporalHistoryValid
    /\ engines[call.inst].lastTemporalFrameIndex = Frame.frameIndex
    /\ engines[call.inst].lastTemporalSampleLen = Len(Frame.charGrid)
    /\ engines[call.inst].appliedTemporalSignature = getTemporalSignature(call.config)
    /\ (/\ call.before.valid /\ call.before.config.temporalEnabled
        /\ call.frameIndex = call.before.frameIndex + 1
        /\ getTemporalSignature(call.config) = getTemporalSignature(call.before.config)
        /\ Len(Frame.charGrid) = CellCountBefore)
       => Frame.hasTemporalHistory /\ ~Frame.requiresTemporalReset

\* the second frame reset a valid history (it skipped a frame, or changed
\* the signature or the size), and the third used the history it left
C28_Witness ==
  /\ TemporalRender /\ ctl.family = "history" /\ ctl.calls = 3
  /\ ctl.trail[1].temporalEnabled
  /\ ctl.trail[2].reset /\ ~ctl.trail[2].used
  /\ Frame.hasTemporalHistory /\ ~Frame.requiresTemporalReset
  /\ call.frameIndex = call.before.frameIndex + 1

PlainRender == call.op = "render" /\ Frame.rendered /\ ~call.config.temporalEnabled

\* C29: a render with temporal disabled on non-empty input discards the
\* instance's temporal history (buffers emptied, history invalid, last frame
\* index and signature cleared), and the first render after temporal is
\* enabled again uses no history and reports lock ratio 0, also when its
\* frame index continues the sequence.
C29_DisabledRenderDiscardsHistory ==
  /\ PlainRender =>
       /\ engines[call.inst].prevLumaBuffer = <<>>
       /\ engines[call.inst].prevEdgeMagnitude = <<>>
       /\ engines[call.inst].prevCharGrid = <<>>
       /\ ~engines[call.inst].temporalHistoryValid
       /\ engines[call.inst].lastTemporalFrameIndex = -1
       /\ engines[call.inst].lastTemporalSampleLen = 0
       /\ engines[call.inst].appliedTemporalSignature = NoSignature
  /\ (TemporalRender /\ call.before.valid /\ ~call.before.config.temporalEnabled) =>
       /\ ~Frame.hasTemporalHistory
       /\ Frame.temporalLockCount = 0
       /\ Frame.metrics.temporal.lockRatio = 0
       /\ \A c \in Cells(Frame) : ~Frame.locked[c]

\* temporal, then disabled, then temporal again on the next frame index, under
\* the configuration and at the size that would have continued the history
C29_Witness ==
  /\ TemporalRender /\ ctl.family = "history" /\ ctl.calls = 3
  /\ ctl.trail[1].temporalEnabled /\ ~ctl.trail[2].temporalEnabled
  /\ call.frameIndex = call.before.frameIndex + 1
  /\ Len(Frame.charGrid) = CellCountBefore
  /\ Frame.requiresTemporalReset /\ ~Frame.hasTemporalHistory
  /\ Frame.metrics.temporal.lockRatio = 0
  /\ engines[1].temporalHistoryValid

\* C30: every export started from the UI that sets the busy flag (HD image,
\* GIF, contact sheet) eventually clears it, on every path: success, early
\* return inside the export, and error.
C30_BusyEventuallyCleared == app.isExporting ~> ~app.isExporting

====
